---- MODULE Spec2Model ----
(***************************************************************************)
(* Verification model of the order-execution guard pipeline of the         *)
(* crypto_trading_bot repository.                                          *)
(*                                                                         *)
(* Part 1 (SpecExits): exchange/exits_addon.py as generated by             *)
(*   apply_patches.py ("patches") and apply_unified_imba_patch.py ("imba").*)
(* Part 2 (SpecEmergency): the variants of _check_emergency_stop.          *)
(* Part 3 (SpecEngine): the trading loop, stop(), signal de-duplication    *)
(*   and the entry cooldown of the runner/live.py variants.                *)
(***************************************************************************)
EXTENDS Integers, Sequences, FiniteSets, TLC

VARIABLES
    \* ---- Part 1: exits addon ----
    xVariant,      \* which generated exits_addon.py is installed
    cfg,           \* get_config(): dry_run, place_exits_on_exchange, exit_replace_cooldown
    now,           \* time.time(), in seconds
    EXIT_STATE,    \* _EXIT_STATE / _LAST_ENSURE: symbol -> kind -> last stamp (0 = absent)
    FILTERS,       \* symbols present in the _FILTERS cache
    openOrders,    \* orders open on the exchange
    callSeq,       \* number of ensure_* calls made so far
    lastCall,      \* what the ensure_* call of the step just taken did
    prevExits,     \* symbol -> the preceding live ensure_exits_on_exchange call
    tpLegs,        \* the (level, share) pairs passed to ensure_tp: "ok" or "dust"
    faults,        \* exchange failures injected so far
    \* ---- Part 2: emergency stop ----
    emVariant,     \* which _check_emergency_stop is installed
    emCfg,         \* config: max_daily_loss, min_account_balance, max_drawdown, dry_run
    emIn,          \* what the metric reads of one check meet
    emVerdict,     \* outcome of the check: "none" before it ran
    \* ---- Part 3: trading engine ----
    engVariant,    \* which runner/live.py is installed
    ecfg,          \* config: close_positions_on_exit, cooldown_sec; om_addon: orders addon installed
    eng,           \* the LiveTradingEngine object and the OrderManager cooldown store
    clock,         \* wall clock of the engine, in seconds
    lastIter,      \* what the loop iteration of the step just taken did
    handed,        \* signal id -> how often it was handed to signal processing
    lastEntryAt,   \* symbol -> time of the latest successful entry placement (-1 = none)
    \* ---- Part 4: cooldown gate ----
    cdWindow,      \* cooldown_sec: config.cooldown_sec (engine map) or OrderManager.cooldown_sec
    cdStore,       \* _local_cooldowns / OrderManager._cooldowns: symbol -> timestamp (0 = absent)
    cdClock,       \* time.time(), in seconds
    cdNoted,       \* symbol -> time of the latest noted trade (-1 = none)
    cdAnswer,      \* the is_in_cooldown answer of the step just taken
    \* ---- Part 5: pure functions ----
    fnIn,          \* the arguments of the latest call (op = "none" before any)
    fnOut          \* its result

exitVars == <<xVariant, cfg, now, EXIT_STATE, FILTERS, openOrders, callSeq, lastCall, prevExits,
             tpLegs, faults>>

emVars == <<emVariant, emCfg, emIn, emVerdict>>

engVars == <<engVariant, ecfg, eng, clock, lastIter, handed, lastEntryAt>>

cdVars == <<cdWindow, cdStore, cdClock, cdNoted, cdAnswer>>

fnVars == <<fnIn, fnOut>>

lateVars == <<cdVars, fnVars>>

notCdVars == <<exitVars, emVars, engVars, fnVars>>

notFnVars == <<exitVars, emVars, engVars, cdVars>>

vars == <<xVariant, cfg, now, EXIT_STATE, FILTERS, openOrders, callSeq, lastCall, prevExits,
         tpLegs, faults, emVariant, emCfg, emIn, emVerdict,
         engVariant, ecfg, eng, clock, lastIter, handed, lastEntryAt,
         cdWindow, cdStore, cdClock, cdNoted, cdAnswer, fnIn, fnOut>>

----------------------------------------------------------------------------
(* Bounds of the exits model *)
Epoch0 == 10
MaxClock == 2
MaxCalls == 2
MaxLegs == 1
MaxFaults == 1

Symbols == {"BTCUSDT"}
ExitVariants == {"patches", "imba"}
Cooldowns == {1, 2}
\* the position the engine holds per symbol
PositionOf == [s \in Symbols |-> IF s = "BTCUSDT" THEN "LONG" ELSE "SHORT"]
LegOutcomes == {"skip", "placed", "retry_placed", "failed", "retry_failed"}

\* floor of the imba gate: max(2.0, cooldown)
MinGate == 2

Max2(a, b) == IF a >= b THEN a ELSE b

----------------------------------------------------------------------------
(* Results *)
NoRes == [status |-> "NONE", reason |-> "", placed |-> 0, skipped |-> 0, fails |-> 0]

Res(st, why) == [status |-> st, reason |-> why, placed |-> 0, skipped |-> 0, fails |-> 0]

NoPrev == [t |-> -1, inp |-> <<>>]

\* a world is the mutable state an ensure_* call works on, plus the
\* per-call instrumentation of the exchange client
World(gate, filters, orders, t) ==
    [gate |-> gate, filters |-> filters, orders |-> orders, t |-> t,
     calls |-> 0, places |-> 0, cancels |-> 0, raised |-> FALSE]

pos_to_close_side(pos_side) ==
    IF pos_side \in {"LONG", "BUY", "B"} THEN "SELL"
    ELSE IF pos_side \in {"SHORT", "SELL", "S"} THEN "BUY"
    ELSE "SELL"

\* the cooldown window _ensure_gate compares against
GateWindow(variant, cooldown_s) ==
    IF variant = "imba" THEN Max2(MinGate, cooldown_s) ELSE cooldown_s

\* _ensure_gate: FALSE inside the window; otherwise stamps and returns TRUE
ensure_gate_open(w, variant, symbol, key, cooldown_s) ==
    ~(w.t - w.gate[symbol][key] < GateWindow(variant, cooldown_s))

ensure_gate_stamp(w, symbol, key) ==
    [w EXCEPT !.gate[symbol][key] = w.t]

\* _load_filters: cached symbols cost nothing; otherwise one get_exchange_info
\* call, which either raises (nothing cached) or fills the cache
load_filters(w, symbol, infoFails) ==
    IF symbol \in w.filters THEN w
    ELSE IF infoFails THEN [w EXCEPT !.calls = @ + 1, !.raised = TRUE]
    ELSE [w EXCEPT !.calls = @ + 1, !.filters = @ \cup {symbol}]

\* _mark_or_last: get_mark_price, errors swallowed
mark_or_last(w) == [w EXCEPT !.calls = @ + 1]

SlOrder(symbol, side, seq) ==
    [sym |-> symbol, kind |-> "SL", side |-> side, leg |-> 0, call |-> seq]

TpOrder(symbol, side, i, seq) ==
    [sym |-> symbol, kind |-> "TP", side |-> side, leg |-> i, call |-> seq]

\* the body of ensure_sl_on_exchange behind its gates: filters, mark price,
\* then one STOP_MARKET closePosition order
\*   env.infoFail    : get_exchange_info raises
\*   env.slPlaceFail : place_order raises
sl_place(w, symbol, position_side, seq, env) ==
    LET w2 == load_filters(w, symbol, env.infoFail)
    IN IF w2.raised THEN [w |-> w2, r |-> Res("RAISED", "")]
       ELSE
         LET w3 == mark_or_last(w2)
             w4 == [w3 EXCEPT !.calls = @ + 1, !.places = @ + 1]
             side == pos_to_close_side(position_side)
         IN IF env.slPlaceFail
              THEN [w |-> w4, r |-> Res("ERROR", "")]
              ELSE [w |-> [w4 EXCEPT !.orders = @ \cup {SlOrder(symbol, side, seq)}],
                    r |-> Res("OK", "")]

\* ensure_sl_on_exchange with the cooldown gate consulted, and stamped, before
\* the dry_run switch
ensure_sl_gate_first(w, c, variant, symbol, position_side, seq, env) ==
    IF ~c.place_exits THEN [w |-> w, r |-> Res("SKIP", "exits disabled")]
    ELSE IF ~ensure_gate_open(w, variant, symbol, "sl", c.cooldown)
        THEN [w |-> w, r |-> Res("SKIP", "cooldown")]
    ELSE IF c.dry_run
        THEN [w |-> ensure_gate_stamp(w, symbol, "sl"), r |-> Res("OK", "dry_run")]
    ELSE sl_place(ensure_gate_stamp(w, symbol, "sl"), symbol, position_side, seq, env)

\* ensure_sl_on_exchange
ensure_sl_on_exchange(w, c, variant, symbol, position_side, seq, env) ==
    IF ~c.place_exits THEN [w |-> w, r |-> Res("SKIP", "exits disabled")]
    ELSE IF c.dry_run THEN [w |-> w, r |-> Res("OK", "dry_run")]
    ELSE IF ~ensure_gate_open(w, variant, symbol, "sl", c.cooldown)
        THEN [w |-> w, r |-> Res("SKIP", "cooldown")]
    ELSE sl_place(ensure_gate_stamp(w, symbol, "sl"), symbol, position_side, seq, env)

\* the open orders of a symbol whose clientOrderId starts with the TP prefix
TpPrefixed(orders, symbol) == {o \in orders : o.sym = symbol /\ o.kind = "TP"}

\* "cancel old TP with prefix": get_open_orders, then cancel_order per
\* prefixed order; both kinds of failure are swallowed
\*   env.listFail   : get_open_orders raises
\*   env.cancelFail : the prefixed orders whose cancel_order raises
cancel_old_tp(w, symbol, env) ==
    IF env.listFail THEN [w EXCEPT !.calls = @ + 1]
    ELSE LET old == TpPrefixed(w.orders, symbol)
         IN [w EXCEPT !.calls = @ + 1 + Cardinality(old),
                      !.cancels = @ + Cardinality(old),
                      !.orders = @ \ (old \ env.cancelFail)]

\* number of place_order calls one leg makes, by outcome
LegPlaceCalls(outcome) ==
    CASE outcome = "skip" -> 0
      [] outcome = "placed" -> 1
      [] outcome = "failed" -> 1
      [] outcome = "retry_placed" -> 2
      [] outcome = "retry_failed" -> 2

\* the for-loop over zip(tp_levels_pct, tp_shares), legs i..n
RECURSIVE tp_legs(_, _, _, _, _, _, _)
tp_legs(acc, symbol, side, i, n, seq, outcomes) ==
    IF i > n THEN acc
    ELSE
      LET o == outcomes[i]
          k == LegPlaceCalls(o)
          w1 == [acc.w EXCEPT !.calls = @ + k, !.places = @ + k]
          ok == o \in {"placed", "retry_placed"}
          w2 == IF ok THEN [w1 EXCEPT !.orders = @ \cup {TpOrder(symbol, side, i, seq)}]
                      ELSE w1
          r2 == [acc.r EXCEPT !.placed = @ + (IF ok THEN 1 ELSE 0),
                              !.skipped = @ + (IF o = "skip" THEN 1 ELSE 0),
                              !.fails = @ + (IF o \in {"failed", "retry_failed"} THEN 1 ELSE 0)]
      IN tp_legs([w |-> w2, r |-> r2], symbol, side, i + 1, n, seq, outcomes)

\* ensure_tp_on_exchange
\*   nLegs : number of (level, share) pairs
ensure_tp_on_exchange(w, c, variant, symbol, position_side, nLegs, seq, env) ==
    IF ~c.place_exits THEN [w |-> w, r |-> Res("SKIP", "exits disabled")]
    ELSE IF c.dry_run THEN [w |-> w, r |-> Res("OK", "dry_run")]
    ELSE IF ~ensure_gate_open(w, variant, symbol, "tp", c.cooldown)
        THEN [w |-> w, r |-> Res("SKIP", "cooldown")]
    ELSE
      LET w1 == ensure_gate_stamp(w, symbol, "tp")
      IN IF variant = "imba" /\ nLegs = 0 THEN [w |-> w1, r |-> Res("SKIP", "no splits")]
         ELSE
           LET w2 == load_filters(w1, symbol, env.infoFailTp)
           IN IF w2.raised THEN [w |-> w2, r |-> Res("RAISED", "")]
              ELSE
                LET w3 == cancel_old_tp(w2, symbol, env)
                    side == pos_to_close_side(position_side)
                    done == tp_legs([w |-> w3, r |-> Res("SKIP", "")],
                                    symbol, side, 1, nLegs, seq, env.legs)
                IN [w |-> done.w,
                    r |-> [done.r EXCEPT
                             !.status = IF done.r.placed > 0 THEN "OK" ELSE "SKIP",
                             !.reason = IF done.r.placed > 0 THEN ""
                                        ELSE IF variant = "imba" THEN "no TP placed"
                                        ELSE ""]]

\* ensure_exits_on_exchange: SL first, then TP; an exception in the SL part
\* propagates and the TP part is not run
ensure_exits_on_exchange(w, c, variant, symbol, position_side, nLegs, seq, env) ==
    LET a == ensure_sl_on_exchange(w, c, variant, symbol, position_side, seq, env)
    IN IF a.r.status = "RAISED" THEN [w |-> a.w, sl |-> a.r, tp |-> NoRes]
       ELSE LET b == ensure_tp_on_exchange(a.w, c, variant, symbol, position_side, nLegs, seq, env)
            IN [w |-> b.w, sl |-> a.r, tp |-> b.r]

----------------------------------------------------------------------------
Live(c) == c.place_exits /\ ~c.dry_run

(* The environment of one call: only the failures the call can meet *)
InfoOutcomes(symbol) == IF symbol \in FILTERS THEN {FALSE} ELSE BOOLEAN

NoTpEnv == [infoFailTp |-> FALSE, listFail |-> FALSE, cancelFail |-> {}, legs |-> <<>>]

NoSlEnv == [infoFail |-> FALSE, slPlaceFail |-> FALSE]

\* a pair whose share is <= 0, whose quantized quantity is <= 0 or whose
\* notional is below min_notional is skipped; any other pair is placed unless
\* the exchange rejects it
LegEnvs(nLegs) ==
    {g \in [1..nLegs -> LegOutcomes] :
        \A i \in 1..nLegs : (g[i] = "skip") <=> (tpLegs[i] = "dust")}

SlEnvs(symbol) ==
    IF Live(cfg)
      THEN [infoFail : InfoOutcomes(symbol), slPlaceFail : BOOLEAN]
      ELSE {NoSlEnv}

TpEnvs(symbol, nLegs, infoOutcomes) ==
    IF Live(cfg)
      THEN {[infoFailTp |-> i, listFail |-> l, cancelFail |-> c, legs |-> g] :
              i \in infoOutcomes, l \in BOOLEAN,
              c \in SUBSET TpPrefixed(openOrders, symbol),
              g \in LegEnvs(nLegs)}
      ELSE {NoTpEnv}

\* number of exchange failures an environment contains
RECURSIVE LegFaults(_, _)
LegFaults(legs, i) ==
    IF i > Len(legs) THEN 0
    ELSE (IF legs[i] \in {"failed", "retry_placed", "retry_failed"} THEN 1 ELSE 0)
         + LegFaults(legs, i + 1)

EnvFaults(env) ==
    (IF env.infoFail THEN 1 ELSE 0) + (IF env.slPlaceFail THEN 1 ELSE 0)
    + (IF env.infoFailTp THEN 1 ELSE 0) + (IF env.listFail THEN 1 ELSE 0)
    + Cardinality(env.cancelFail) + LegFaults(env.legs, 1)

Join(a, b) ==
    [infoFail |-> a.infoFail, slPlaceFail |-> a.slPlaceFail,
     infoFailTp |-> b.infoFailTp, listFail |-> b.listFail,
     cancelFail |-> b.cancelFail, legs |-> b.legs]

NoCall == [op |-> "none", sym |-> "", inp |-> <<>>, t0 |-> 0, live |-> FALSE,
           cooldown |-> 0, sl |-> NoRes, tp |-> NoRes, raised |-> FALSE,
           calls |-> 0, places |-> 0, cancels |-> 0,
           prev |-> NoPrev]

CallRecord(op, symbol, inp, sl, tp, w) ==
    [op |-> op, sym |-> symbol, inp |-> inp, t0 |-> now, live |-> Live(cfg),
     cooldown |-> cfg.cooldown, sl |-> sl, tp |-> tp,
     raised |-> w.raised, calls |-> w.calls, places |-> w.places, cancels |-> w.cancels,
     prev |-> IF op = "exits" THEN prevExits[symbol] ELSE NoPrev]

Commit(w, env) ==
    /\ faults + EnvFaults(env) <= MaxFaults
    /\ faults' = faults + EnvFaults(env)
    /\ EXIT_STATE' = w.gate
    /\ FILTERS' = w.filters
    /\ openOrders' = w.orders
    /\ now' = w.t
    /\ callSeq' = callSeq + 1

\* bounds of the engine model
EngineEpoch0 == 600
TickSeconds == 60
MaxTicks == 2
MaxSignals == 1

SignalIds == 1..MaxSignals

NoIter == [ran |-> FALSE, verdict |-> "none", steps |-> <<>>, sig |-> 0, out |-> "none",
           entry |-> FALSE, t |-> 0, prevEntry |-> -1]

\* LiveTradingEngine after __init__ and a completed start-up
Engine0(positions) ==
    [running |-> TRUE, paused |-> FALSE, exited |-> FALSE,
     processed_signals |-> {}, pending_orders |-> {}, active_positions |-> positions,
     cooldown_until |-> [s \in Symbols |-> 0],
     om_cooldowns |-> [s \in Symbols |-> 0],
     consecutive_errors |-> 0, orderSeq |-> 0, stopLog |-> <<>>]

\* the engine part at rest
EngineIdle ==
    /\ engVariant = "v8g"
    /\ ecfg = [close_positions_on_exit |-> FALSE, cooldown_sec |-> 0, om_addon |-> FALSE]
    /\ eng = Engine0({})
    /\ clock = EngineEpoch0
    /\ lastIter = NoIter
    /\ handed = [i \in SignalIds |-> 0]
    /\ lastEntryAt = [s \in Symbols |-> -1]

CdSymbols == {"BTCUSDT", "ETHUSDT"}

NoAnswer == [asked |-> FALSE, sym |-> "", t |-> 0, res |-> FALSE]

\* the cooldown gate at rest
CooldownIdle ==
    /\ cdWindow = 0
    /\ cdStore = [s \in CdSymbols |-> 0]
    /\ cdClock = EngineEpoch0
    /\ cdNoted = [s \in CdSymbols |-> -1]
    /\ cdAnswer = NoAnswer

NoFn == [op |-> "none"]

\* no function call under way
FnIdle ==
    /\ fnIn = NoFn
    /\ fnOut = NoFn

LateIdle == CooldownIdle /\ FnIdle

\* the emergency-stop part at rest
EmergencyIdle ==
    /\ emVariant = "v8g"
    /\ emCfg = [max_daily_loss |-> 0, min_account_balance |-> 0, max_drawdown |-> 0,
                dry_run |-> FALSE]
    /\ emIn = [daily_pnl |-> 0, balance |-> 0, max_dd |-> 0,
               pnlRead |-> "ok", balRead |-> "ok", ddRead |-> "ok"]
    /\ emVerdict = "none"

InitExits ==
    /\ xVariant \in ExitVariants
    /\ cfg \in [dry_run : {FALSE}, place_exits : {TRUE}, cooldown : Cooldowns]
    /\ now = Epoch0
    /\ EXIT_STATE = [s \in Symbols |-> [sl |-> 0, tp |-> 0]]
    /\ FILTERS = {}
    /\ openOrders = {}
    /\ callSeq = 0
    /\ lastCall = NoCall
    /\ prevExits = [s \in Symbols |-> NoPrev]
    /\ tpLegs \in UNION {[1..n -> {"ok", "dust"}] : n \in 0..MaxLegs}
    /\ faults = 0
    /\ EmergencyIdle
    /\ EngineIdle
    /\ LateIdle

\* a loop tick calls ensure_sl_on_exchange
CallEnsureSl ==
    /\ callSeq < MaxCalls
    /\ \E symbol \in Symbols : \E side \in {PositionOf[symbol]} :
       \E e1 \in SlEnvs(symbol) :
         LET env == Join(e1, NoTpEnv)
             a == ensure_sl_on_exchange(World(EXIT_STATE, FILTERS, openOrders, now),
                                        cfg, xVariant, symbol, side, callSeq + 1, env)
         IN /\ Commit(a.w, env)
            /\ lastCall' = CallRecord("sl", symbol, <<side>>, a.r, NoRes, a.w)
    /\ UNCHANGED <<xVariant, cfg, prevExits, tpLegs>>
    /\ UNCHANGED emVars
    /\ UNCHANGED engVars
    /\ UNCHANGED lateVars

\* a loop tick calls ensure_tp_on_exchange
CallEnsureTp ==
    /\ callSeq < MaxCalls
    /\ \E symbol \in Symbols : \E side \in {PositionOf[symbol]}, nLegs \in {Len(tpLegs)} :
       \E e2 \in TpEnvs(symbol, nLegs, InfoOutcomes(symbol)) :
         LET env == Join(NoSlEnv, e2)
             b == ensure_tp_on_exchange(World(EXIT_STATE, FILTERS, openOrders, now),
                                        cfg, xVariant, symbol, side, nLegs, callSeq + 1, env)
         IN /\ Commit(b.w, env)
            /\ lastCall' = CallRecord("tp", symbol, <<side, nLegs>>, NoRes, b.r, b.w)
    /\ UNCHANGED <<xVariant, cfg, prevExits, tpLegs>>
    /\ UNCHANGED emVars
    /\ UNCHANGED engVars
    /\ UNCHANGED lateVars

\* a loop tick calls ensure_exits_on_exchange
CallEnsureExits ==
    /\ callSeq < MaxCalls
    /\ \E symbol \in Symbols : \E side \in {PositionOf[symbol]}, nLegs \in {Len(tpLegs)} :
       \E e1 \in SlEnvs(symbol), e2 \in TpEnvs(symbol, nLegs, {FALSE}) :
         LET env == Join(e1, e2)
             x == ensure_exits_on_exchange(World(EXIT_STATE, FILTERS, openOrders, now),
                                           cfg, xVariant, symbol, side, nLegs, callSeq + 1, env)
         IN /\ Commit(x.w, env)
            /\ lastCall' = CallRecord("exits", symbol, <<side, nLegs>>, x.sl, x.tp, x.w)
            /\ prevExits' = IF Live(cfg)
                               THEN [prevExits EXCEPT ![symbol] = [t |-> now, inp |-> <<side, nLegs>>]]
                               ELSE prevExits
    /\ UNCHANGED <<xVariant, cfg, tpLegs>>
    /\ UNCHANGED emVars
    /\ UNCHANGED engVars
    /\ UNCHANGED lateVars

\* time passes between loop ticks
TickExits ==
    /\ now < Epoch0 + MaxClock
    /\ now' = now + 1
    /\ lastCall' = NoCall
    /\ UNCHANGED <<xVariant, cfg, EXIT_STATE, FILTERS, openOrders, callSeq, prevExits,
                   tpLegs, faults>>
    /\ UNCHANGED emVars
    /\ UNCHANGED engVars
    /\ UNCHANGED lateVars

\* apply_settings_to_config: runtime overrides change the exit switches
ApplyExitOverrides ==
    /\ \E d \in BOOLEAN, p \in BOOLEAN :
         /\ <<d, p>> # <<cfg.dry_run, cfg.place_exits>>
         /\ cfg' = [cfg EXCEPT !.dry_run = d, !.place_exits = p]
    /\ lastCall' = NoCall
    /\ UNCHANGED <<xVariant, now, EXIT_STATE, FILTERS, openOrders, callSeq, prevExits,
                   tpLegs, faults>>
    /\ UNCHANGED emVars
    /\ UNCHANGED engVars
    /\ UNCHANGED lateVars

NextExits ==
    \/ CallEnsureSl
    \/ CallEnsureTp
    \/ CallEnsureExits
    \/ TickExits
    \/ ApplyExitOverrides

SpecExits == InitExits /\ [][NextExits]_vars

----------------------------------------------------------------------------
(* Claims about the exits addon *)

\* the TP part of a call got past the disable, dry-run and cooldown gates
TpPassedGates(c) ==
    /\ c.op \in {"tp", "exits"}
    /\ c.live
    /\ c.tp.status # "NONE"
    /\ ~(c.tp.status = "SKIP" /\ c.tp.reason = "cooldown")

SkippedForCooldown(r) == r.status = "SKIP" /\ r.reason = "cooldown"

StopOrders(symbol) == {o \in openOrders : o.sym = symbol /\ o.kind = "SL"}

\* C1: in live mode with exits enabled, a second ensure_exits_on_exchange call
\* with the same inputs made less than exit_replace_cooldown seconds after the
\* first returns SKIP/cooldown for both parts and places and cancels nothing.
C1_SecondCallIsNoOp ==
    (/\ lastCall.op = "exits"
     /\ lastCall.live
     /\ lastCall.prev # NoPrev
     /\ lastCall.prev.inp = lastCall.inp
     /\ lastCall.t0 - lastCall.prev.t < lastCall.cooldown)
    => (/\ SkippedForCooldown(lastCall.sl)
        /\ SkippedForCooldown(lastCall.tp)
        /\ lastCall.places = 0
        /\ lastCall.cancels = 0)

\* C2: after an ensure_tp_on_exchange call that got past its gates, the open
\* TP-prefixed orders of the symbol are exactly the legs that call placed.
C2_OnlyFreshTakeProfits ==
    TpPassedGates(lastCall)
    => TpPrefixed(openOrders, lastCall.sym)
         = {o \in openOrders : o.sym = lastCall.sym /\ o.kind = "TP" /\ o.call = callSeq}

\* C3: at most one open STOP_MARKET close-position order exists per symbol.
C3_AtMostOneStop ==
    \A s \in Symbols : Cardinality(StopOrders(s)) <= 1

\* C4: with dry_run set or place_exits_on_exchange cleared, an ensure_* call
\* makes no exchange call and leaves the exit cooldown state, the filter cache
\* and the exchange's orders as they were.
C4_DisabledTouchesNothing ==
    [][(callSeq' # callSeq /\ ~Live(cfg))
         => (/\ lastCall'.calls = 0
             /\ lastCall'.places = 0
             /\ lastCall'.cancels = 0
             /\ EXIT_STATE' = EXIT_STATE
             /\ FILTERS' = FILTERS
             /\ openOrders' = openOrders)]_vars

\* a disabled or dry-run call made after the gate had been stamped by a live call
C4_Witness ==
    /\ lastCall.op \in {"sl", "tp"}
    /\ ~lastCall.live
    /\ lastCall.sl.reason \in {"dry_run", "exits disabled", ""}
    /\ \E s \in Symbols : EXIT_STATE[s].sl > 0 /\ EXIT_STATE[s].tp > 0

----------------------------------------------------------------------------
(* Part 2: _check_emergency_stop *)

\* bounds of the emergency-stop model
MaxThreshold == 1
MaxMetric == 2

EmVariants == {"v6", "gv8", "v8g", "hotfix5"}
Thresholds == 0..MaxThreshold
Pnls == (0 - MaxMetric)..1
Balances == 0..MaxMetric
Drawdowns == 0..MaxMetric
ReadOutcomes == {"ok", "fail"}

Abs(x) == IF x < 0 THEN 0 - x ELSE x

\* the exits part at rest
ExitsIdle ==
    /\ xVariant = "patches"
    /\ cfg = [dry_run |-> FALSE, place_exits |-> TRUE, cooldown |-> 1]
    /\ now = Epoch0
    /\ EXIT_STATE = [s \in Symbols |-> [sl |-> 0, tp |-> 0]]
    /\ FILTERS = {}
    /\ openOrders = {}
    /\ callSeq = 0
    /\ lastCall = NoCall
    /\ prevExits = [s \in Symbols |-> NoPrev]
    /\ tpLegs = <<>>
    /\ faults = 0

\* metrics.get_daily_pnl() behind "except Exception: daily_pnl = 0.0"
read_daily_pnl(m) == IF m.pnlRead = "fail" THEN 0 ELSE m.daily_pnl

\* metrics.get_max_drawdown() behind "except Exception: max_drawdown = 0.0"
read_max_drawdown(m) == IF m.ddRead = "fail" THEN 0 ELSE m.max_dd

\* PositionManager.get_account_balance: 0.0 when the exchange read fails
get_account_balance(m) == IF m.balRead = "fail" THEN 0 ELSE m.balance

\* runner/live.bak_guardrails_v6.py
check_emergency_stop_v6(c, m) ==
    IF read_daily_pnl(m) < 0 - Abs(c.max_daily_loss) THEN "halt"
    ELSE IF get_account_balance(m) < c.min_account_balance THEN "halt"
    ELSE IF read_max_drawdown(m) > c.max_drawdown THEN "halt"
    ELSE "continue"

\* runner/live.bak_guardrails_v8.py; a failed drawdown read skips that check
check_emergency_stop_gv8(c, m) ==
    IF c.dry_run THEN "continue"
    ELSE IF read_daily_pnl(m) < 0 - Abs(c.max_daily_loss) THEN "halt"
    ELSE IF c.min_account_balance > 0 /\ get_account_balance(m) < c.min_account_balance
        THEN "halt"
    ELSE IF m.ddRead = "ok" /\ c.max_drawdown > 0 /\ m.max_dd > c.max_drawdown THEN "halt"
    ELSE "continue"

\* runner/live.bak_v8_guardrails.py; the balance accessor is read but not
\* called, so float(balance) raises TypeError once min_account_balance > 0
check_emergency_stop_v8g(c, m) ==
    IF c.max_daily_loss > 0 /\ read_daily_pnl(m) < 0 - Abs(c.max_daily_loss) THEN "halt"
    ELSE IF c.min_account_balance > 0 THEN "raised"
    ELSE IF read_max_drawdown(m) > c.max_drawdown /\ c.max_drawdown > 0 THEN "halt"
    ELSE "continue"

\* apply_live_engine_hotfix_v5.py
check_emergency_stop_hotfix5(c, m) ==
    IF c.max_daily_loss # 0 /\ read_daily_pnl(m) < 0 - Abs(c.max_daily_loss) THEN "halt"
    ELSE IF c.min_account_balance # 0 /\ get_account_balance(m) < c.min_account_balance
        THEN "halt"
    ELSE IF c.max_drawdown # 0 /\ read_max_drawdown(m) > c.max_drawdown THEN "halt"
    ELSE "continue"

check_emergency_stop(variant, c, m) ==
    CASE variant = "v6" -> check_emergency_stop_v6(c, m)
      [] variant = "gv8" -> check_emergency_stop_gv8(c, m)
      [] variant = "v8g" -> check_emergency_stop_v8g(c, m)
      [] variant = "hotfix5" -> check_emergency_stop_hotfix5(c, m)

EmConfigs ==
    [max_daily_loss : Thresholds, min_account_balance : Thresholds,
     max_drawdown : Thresholds, dry_run : BOOLEAN]

EmInputs ==
    [daily_pnl : Pnls, balance : Balances, max_dd : Drawdowns,
     pnlRead : ReadOutcomes, balRead : ReadOutcomes, ddRead : ReadOutcomes]

InitEmergency ==
    /\ ExitsIdle
    /\ emVariant \in EmVariants
    /\ emCfg \in EmConfigs
    /\ emIn \in EmInputs
    /\ emVerdict = "none"
    /\ EngineIdle
    /\ LateIdle

\* one loop iteration runs the check
CheckEmergencyStop ==
    /\ emVerdict = "none"
    /\ emVerdict' = check_emergency_stop(emVariant, emCfg, emIn)
    /\ UNCHANGED <<emVariant, emCfg, emIn>>
    /\ UNCHANGED exitVars
    /\ UNCHANGED engVars
    /\ UNCHANGED lateVars

NextEmergency == CheckEmergencyStop

SpecEmergency == InitEmergency /\ [][NextEmergency]_vars

(* Claims about the emergency stop *)

FailedReads(m) ==
    (IF m.pnlRead = "fail" THEN 1 ELSE 0) + (IF m.balRead = "fail" THEN 1 ELSE 0)
    + (IF m.ddRead = "fail" THEN 1 ELSE 0)

\* the same situation with every failed read replaced by a reading that cannot
\* trip its own check
WithoutFailedReads(m) ==
    [daily_pnl |-> IF m.pnlRead = "fail" THEN 0 ELSE m.daily_pnl,
     balance |-> IF m.balRead = "fail" THEN MaxMetric + MaxThreshold ELSE m.balance,
     max_dd |-> IF m.ddRead = "fail" THEN 0 ELSE m.max_dd,
     pnlRead |-> "ok", balRead |-> "ok", ddRead |-> "ok"]

\* C6: with max_daily_loss, min_account_balance and max_drawdown all zero the
\* emergency-stop check returns false whatever the daily PnL, balance and
\* drawdown are.
C6_ZeroThresholdsDisable ==
    (/\ emVerdict # "none"
     /\ emCfg.max_daily_loss = 0
     /\ emCfg.min_account_balance = 0
     /\ emCfg.max_drawdown = 0)
    => emVerdict = "continue"

\* C7: when exactly one of the three metric reads fails, the check does not
\* raise and returns what the other two checks alone decide.
C7_FailedReadIsUnknown ==
    (emVerdict # "none" /\ FailedReads(emIn) = 1)
    => (/\ emVerdict # "raised"
        /\ emVerdict = check_emergency_stop(emVariant, emCfg, WithoutFailedReads(emIn)))

----------------------------------------------------------------------------
(* Part 3: the trading loop of runner/live.py *)

EngVariants == {"v6", "gv8", "v8g", "risk8"}

\* window of OrderManager.is_in_cooldown when OrderManager has no cooldown_sec
OmCooldownSec == 60

\* consecutive errors after which the loop stops the engine
MaxConsecutiveErrors == 10

CooldownSecs == {0, 120}

\* "risk8" is the v8g engine with _process_trading_cycle replaced by NEW_BODY
EmVariantOf(variant) == IF variant = "risk8" THEN "v8g" ELSE variant

EntryOrder(symbol, seq) == [sym |-> symbol, kind |-> "ENTRY", seq |-> seq]

CloseOrder(symbol) == [sym |-> symbol, kind |-> "CLOSE", seq |-> 0]

\* orders_cooldown_addon: is_in_cooldown
om_is_in_cooldown(e, symbol, t) == (t - e.om_cooldowns[symbol]) < OmCooldownSec

\* orders_cooldown_addon: _note_cd, called by the place_order wrapper
om_note_cd(e, c, symbol, t) ==
    IF c.om_addon THEN [e EXCEPT !.om_cooldowns[symbol] = t] ELSE e

\* the cooldown part of _can_trade_signal (NEW_BODY: the inline cooldown
\* guard): the OrderManager check when it exists; otherwise gv8 falls back to
\* its local _cooldown_until and the other variants check nothing
in_cooldown(e, variant, c, symbol, t) ==
    IF c.om_addon THEN om_is_in_cooldown(e, symbol, t)
    ELSE IF variant = "gv8"
        THEN e.cooldown_until[symbol] # 0 /\ t < e.cooldown_until[symbol]
    ELSE FALSE

\* _process_signal (NEW_BODY: steps 1-3 of the per-symbol loop), with the
\* symbol configured, trading hours unrestricted and the position below its cap
\*   env.size  : calculate_position_size gives "ok", "zero" or raises
\*   env.place : place_order returns an "order", "none" or raises
process_signal(e, variant, c, symbol, t, env) ==
    IF in_cooldown(e, variant, c, symbol, t)
      THEN [e |-> e, out |-> "cooldown", raised |-> FALSE]
    ELSE IF env.size = "raise"
      THEN [e |-> e, out |-> "nosize", raised |-> variant \in {"v8g", "v6"}]
    ELSE IF env.size = "zero"
      THEN [e |-> e, out |-> "nosize", raised |-> FALSE]
    ELSE IF env.place = "raise"
      THEN [e |-> e, out |-> "failed", raised |-> FALSE]
    ELSE IF env.place = "none"
      THEN [e |-> om_note_cd(e, c, symbol, t), out |-> "noorder", raised |-> FALSE]
    ELSE
      LET e1 == om_note_cd(e, c, symbol, t)
          e2 == [e1 EXCEPT !.orderSeq = @ + 1,
                           !.pending_orders = @ \cup {EntryOrder(symbol, e1.orderSeq + 1)}]
          e3 == IF variant = "gv8" /\ c.cooldown_sec > 0
                  THEN [e2 EXCEPT !.cooldown_until[symbol] = t + c.cooldown_sec]
                  ELSE e2
      IN [e |-> e3, out |-> "order", raised |-> FALSE]

\* _update_orders: pending orders the exchange reports filled leave
\* pending_orders; a filled entry order opens the position
update_orders(e, filled) ==
    IF filled
      THEN [e EXCEPT !.pending_orders = {},
                     !.active_positions =
                         @ \cup {o.sym : o \in {q \in e.pending_orders : q.kind = "ENTRY"}}]
      ELSE e

\* does the cycle add the id to processed_signals after processing?
marks_processed(variant, p) ==
    CASE variant = "v8g" -> ~p.raised
      [] variant = "v6" -> ~p.raised
      [] variant = "gv8" -> FALSE
      [] variant = "risk8" -> p.out = "order"

\* does an exception leave _process_trading_cycle?  v8g catches what
\* _process_signal raises; gv8 raises NameError on its processed_signals.add
\* line (module time is not imported)
cycle_raises(variant, p) ==
    CASE variant = "v8g" -> FALSE
      [] variant = "v6" -> p.raised
      [] variant = "gv8" -> TRUE
      [] variant = "risk8" -> FALSE

\* _process_trading_cycle
\*   env.sig    : id of the signal the generator returns, 0 for none
\*   env.filled : the exchange reports the pending orders filled
process_trading_cycle(e, variant, c, symbol, t, env) ==
    IF env.sig = 0 \/ env.sig \in e.processed_signals
      THEN [e |-> update_orders(e, env.filled), out |-> "none", raised |-> FALSE,
            handed |-> FALSE]
    ELSE
      LET p == process_signal(e, variant, c, symbol, t, env)
          e1 == IF marks_processed(variant, p)
                  THEN [p.e EXCEPT !.processed_signals = @ \cup {env.sig}]
                  ELSE p.e
      IN IF cycle_raises(variant, p)
           THEN [e |-> e1, out |-> p.out, raised |-> TRUE, handed |-> TRUE]
           ELSE [e |-> update_orders(e1, env.filled), out |-> p.out, raised |-> FALSE,
                 handed |-> TRUE]

\* _cancel_all_pending_orders: pending_orders is cleared whether or not the
\* cancels succeed
cancel_all_pending_orders(e) ==
    [e EXCEPT !.pending_orders = {}, !.stopLog = Append(@, "cancel")]

\* _save_state
save_state(e) == [e EXCEPT !.stopLog = Append(@, "save")]

\* _close_all_positions: a close order is tracked as pending; a position the
\* exchange reports closed already is dropped
\*   closeOrder : close_position returns an order
close_all_positions(e, closeOrder) ==
    IF closeOrder
      THEN [e EXCEPT !.pending_orders = @ \cup {CloseOrder(sym) : sym \in e.active_positions},
                     !.stopLog = Append(@, "close")]
      ELSE [e EXCEPT !.active_positions = {}, !.stopLog = Append(@, "close")]

\* stop()
stop(e, c, closeOrder) ==
    IF ~e.running THEN e
    ELSE
      LET e1 == [e EXCEPT !.running = FALSE]
          e2 == cancel_all_pending_orders(e1)
          e3 == save_state(e2)
      IN IF c.close_positions_on_exit THEN close_all_positions(e3, closeOrder) ELSE e3

\* the except branch with the breaker tripping at the limit itself
on_loop_error_at_limit(e, c, closeOrder) ==
    LET e1 == [e EXCEPT !.consecutive_errors = @ + 1]
    IN IF e1.consecutive_errors >= MaxConsecutiveErrors
         THEN [stop(e1, c, closeOrder) EXCEPT !.exited = TRUE]
         ELSE e1

\* the except branch of the loop: count the error, stop after too many
on_loop_error(e, c, closeOrder) ==
    LET e1 == [e EXCEPT !.consecutive_errors = @ + 1]
    IN IF e1.consecutive_errors > MaxConsecutiveErrors
         THEN [stop(e1, c, closeOrder) EXCEPT !.exited = TRUE]
         ELSE e1

IterResult(e, verdict, steps, cy) ==
    [e |-> e, verdict |-> verdict, steps |-> steps, out |-> cy.out, handed |-> cy.handed]

NoCycle == [out |-> "none", handed |-> FALSE]

\* one pass of the while loop with the trading cycle run ahead of the
\* emergency-stop check
run_trading_loop_cycle_first(e, variant, c, emc, symbol, t, env) ==
    LET cy == IF e.paused
                THEN [e |-> e, out |-> "none", raised |-> FALSE, handed |-> FALSE]
                ELSE process_trading_cycle(e, variant, c, symbol, t, env)
        verdict == check_emergency_stop(EmVariantOf(variant), emc, env.metrics)
    IN IF cy.raised \/ verdict = "raised"
         THEN IterResult(on_loop_error(cy.e, c, env.closeOrder), verdict, <<"cycle", "check">>, cy)
       ELSE IF verdict = "halt"
         THEN IterResult([stop(cy.e, c, env.closeOrder) EXCEPT !.exited = TRUE], verdict,
                         <<"cycle", "check", "stop">>, cy)
       ELSE IterResult(cy.e, verdict, <<"cycle", "check">>, cy)

\* one pass of the while loop of _run_trading_loop
\*   env.metrics    : what the metric reads meet
\*   env.closeOrder : see close_all_positions
run_trading_loop(e, variant, c, emc, symbol, t, env) ==
    LET verdict == check_emergency_stop(EmVariantOf(variant), emc, env.metrics)
    IN IF verdict = "raised"
         THEN IterResult(on_loop_error(e, c, env.closeOrder), verdict, <<"check">>, NoCycle)
       ELSE IF verdict = "halt"
         THEN IterResult([stop(e, c, env.closeOrder) EXCEPT !.exited = TRUE], verdict,
                         <<"check", "stop">>, NoCycle)
       ELSE IF e.paused
         THEN IterResult(e, verdict, <<"check">>, NoCycle)
       ELSE
         LET cy == process_trading_cycle(e, variant, c, symbol, t, env)
         IN IF cy.raised
              THEN IterResult(on_loop_error(cy.e, c, env.closeOrder), verdict,
                              <<"check", "cycle">>, cy)
              ELSE IterResult(cy.e, verdict, <<"check", "cycle">>, cy)

\* thresholds the engine runs with
EngineEmConfigs ==
    {[max_daily_loss |-> 1, min_account_balance |-> b, max_drawdown |-> 1, dry_run |-> FALSE] :
        b \in {0, 1}}

\* the metrics one iteration can meet: a healthy account or a daily loss
EngineMetrics ==
    {[daily_pnl |-> pnl, balance |-> MaxMetric, max_dd |-> 0,
      pnlRead |-> "ok", balRead |-> "ok", ddRead |-> "ok"] : pnl \in {0 - MaxMetric, 0}}

IterEnvs ==
    [metrics : EngineMetrics, sig : {0} \cup SignalIds, size : {"ok", "zero", "raise"},
     place : {"order", "none", "raise"}, filled : BOOLEAN, closeOrder : BOOLEAN]

\* environments that differ only in a choice the iteration never looks at
\* are the same environment
Relevant(env) ==
    /\ (env.sig = 0 \/ env.sig \in eng.processed_signals \/ eng.paused)
          => (env.size = "ok" /\ env.place = "order")
    /\ env.size # "ok" => env.place = "order"
    /\ (eng.pending_orders = {} /\ env.sig = 0) => ~env.filled
    /\ (eng.active_positions = {} \/ ~ecfg.close_positions_on_exit) => env.closeOrder

InitEngine ==
    /\ ExitsIdle
    /\ emVariant = "v8g"
    /\ emCfg \in EngineEmConfigs
    /\ emIn = [daily_pnl |-> 0, balance |-> 0, max_dd |-> 0,
               pnlRead |-> "ok", balRead |-> "ok", ddRead |-> "ok"]
    /\ emVerdict = "none"
    /\ engVariant \in EngVariants
    /\ ecfg \in [close_positions_on_exit : BOOLEAN, cooldown_sec : CooldownSecs,
                 om_addon : BOOLEAN]
    /\ eng \in {Engine0(ps) : ps \in SUBSET Symbols}
    /\ clock = EngineEpoch0
    /\ lastIter = NoIter
    /\ handed = [i \in SignalIds |-> 0]
    /\ lastEntryAt = [s \in Symbols |-> -1]
    /\ LateIdle

\* the while loop runs one iteration and sleeps
RunIteration ==
    /\ eng.running /\ ~eng.exited
    /\ clock < EngineEpoch0 + MaxTicks * TickSeconds
    /\ \E symbol \in Symbols : \E env \in IterEnvs :
         /\ Relevant(env)
         /\ LET x == run_trading_loop(eng, engVariant, ecfg, emCfg, symbol, clock, env)
                entry == x.out = "order"
            IN /\ eng' = x.e
               /\ lastIter' = [ran |-> TRUE, verdict |-> x.verdict, steps |-> x.steps,
                               sig |-> IF x.handed THEN env.sig ELSE 0, out |-> x.out,
                               entry |-> entry, t |-> clock,
                               prevEntry |-> lastEntryAt[symbol]]
               /\ handed' = IF x.handed THEN [handed EXCEPT ![env.sig] = @ + 1] ELSE handed
               /\ lastEntryAt' = IF entry THEN [lastEntryAt EXCEPT ![symbol] = clock]
                                          ELSE lastEntryAt
    /\ clock' = clock + TickSeconds
    /\ UNCHANGED <<engVariant, ecfg>>
    /\ UNCHANGED exitVars
    /\ UNCHANGED emVars
    /\ UNCHANGED lateVars

\* more time passes between two iterations
EngineTick ==
    /\ clock < EngineEpoch0 + MaxTicks * TickSeconds
    /\ clock' = clock + TickSeconds
    /\ lastIter' = NoIter
    /\ UNCHANGED <<engVariant, ecfg, eng, handed, lastEntryAt>>
    /\ UNCHANGED exitVars
    /\ UNCHANGED emVars
    /\ UNCHANGED lateVars

\* the signal handler or the operator calls stop()
RequestStop ==
    /\ eng.running
    /\ \E closeOrder \in BOOLEAN :
         /\ (eng.active_positions = {} \/ ~ecfg.close_positions_on_exit) => closeOrder
         /\ eng' = stop(eng, ecfg, closeOrder)
    /\ lastIter' = NoIter
    /\ UNCHANGED <<engVariant, ecfg, clock, handed, lastEntryAt>>
    /\ UNCHANGED exitVars
    /\ UNCHANGED emVars
    /\ UNCHANGED lateVars

\* pause()
Pause ==
    /\ eng.running /\ ~eng.paused
    /\ eng' = [eng EXCEPT !.paused = TRUE]
    /\ lastIter' = NoIter
    /\ UNCHANGED <<engVariant, ecfg, clock, handed, lastEntryAt>>
    /\ UNCHANGED exitVars
    /\ UNCHANGED emVars
    /\ UNCHANGED lateVars

\* resume()
Resume ==
    /\ eng.running /\ eng.paused
    /\ eng' = [eng EXCEPT !.paused = FALSE]
    /\ lastIter' = NoIter
    /\ UNCHANGED <<engVariant, ecfg, clock, handed, lastEntryAt>>
    /\ UNCHANGED exitVars
    /\ UNCHANGED emVars
    /\ UNCHANGED lateVars

NextEngine ==
    \/ RunIteration
    \/ EngineTick
    \/ RequestStop
    \/ Pause
    \/ Resume

SpecEngine == InitEngine /\ [][NextEngine]_vars

(* Claims about the trading loop *)

Contains(seq, x) == \E k \in 1..Len(seq) : seq[k] = x

\* C5: every loop iteration starts with the emergency-stop check; when the
\* check returns true the iteration runs no trading cycle and places no entry
\* order, calls stop(), and the loop ends with running = false.
C5_EmergencyCheckFirst ==
    lastIter.ran
    => (/\ Len(lastIter.steps) >= 1
        /\ lastIter.steps[1] = "check"
        /\ lastIter.verdict = "halt"
             => (/\ ~Contains(lastIter.steps, "cycle")
                 /\ ~lastIter.entry
                 /\ lastIter.sig = 0
                 /\ Contains(lastIter.steps, "stop")
                 /\ ~eng.running
                 /\ eng.exited
                 /\ Len(eng.stopLog) > 0))

\* an iteration in which the emergency stop fired while a new signal was ready
C5_Witness ==
    /\ lastIter.ran
    /\ lastIter.verdict = "halt"
    /\ ~eng.running
    /\ lastIter.t > EngineEpoch0
    /\ eng.stopLog # <<>>

\* C8: on shutdown the pending orders are cancelled first, then the positions
\* are flattened when close_positions_on_exit is set, and the state is
\* persisted last.
C8_PersistLast ==
    eng.stopLog # <<>>
    => eng.stopLog = IF ecfg.close_positions_on_exit
                       THEN <<"cancel", "close", "save">>
                       ELSE <<"cancel", "save">>

\* C9: no signal id is handed to signal processing more than once.
C9_HandedAtMostOnce ==
    \A i \in SignalIds : handed[i] <= 1

\* C10: an entry order for a symbol is placed only when no earlier entry for
\* that symbol was placed less than cooldown_sec seconds before.
C10_EntryCooldown ==
    (lastIter.entry /\ lastIter.prevEntry >= 0)
    => lastIter.t - lastIter.prevEntry >= ecfg.cooldown_sec

----------------------------------------------------------------------------
(* Part 4: the cooldown gate of apply_live_orders_cooldown_patch.py *)

\* "cooldown_sec or 60.0": a missing or zero setting falls back to 60 seconds
CooldownFallbackSec == 60

CdWindows == {0, TickSeconds, 2 * TickSeconds}

EarlyIdle == ExitsIdle /\ EmergencyIdle /\ EngineIdle

\* cd = float(getattr(..., "cooldown_sec", 60) or 60.0)
effective_window(window) == IF window = 0 THEN CooldownFallbackSec ELSE window

\* _is_in_cooldown (local fallback) / is_in_cooldown (orders addon)
is_in_cooldown(store, window, symbol, t) ==
    (t - store[symbol]) < effective_window(window)

\* _note_cooldown (local fallback) / _note_cd (orders addon)
note_cooldown(store, symbol, t) == [store EXCEPT ![symbol] = t]

InitCooldown ==
    /\ EarlyIdle
    /\ FnIdle
    /\ cdWindow \in CdWindows
    /\ cdStore = [s \in CdSymbols |-> 0]
    /\ cdClock = EngineEpoch0
    /\ cdNoted = [s \in CdSymbols |-> -1]
    /\ cdAnswer = NoAnswer

\* an order was placed: the trade is noted
NoteTrade ==
    /\ \E symbol \in CdSymbols :
         /\ cdStore' = note_cooldown(cdStore, symbol, cdClock)
         /\ cdNoted' = [cdNoted EXCEPT ![symbol] = cdClock]
    /\ cdAnswer' = NoAnswer
    /\ UNCHANGED <<cdWindow, cdClock>>
    /\ UNCHANGED notCdVars

\* a new signal arrives: the gate is asked
CheckCooldown ==
    /\ \E symbol \in CdSymbols :
         cdAnswer' = [asked |-> TRUE, sym |-> symbol, t |-> cdClock,
                      res |-> is_in_cooldown(cdStore, cdWindow, symbol, cdClock)]
    /\ UNCHANGED <<cdWindow, cdStore, cdClock, cdNoted>>
    /\ UNCHANGED notCdVars

\* time passes
CooldownTick ==
    /\ cdClock < EngineEpoch0 + (MaxTicks + 1) * TickSeconds
    /\ cdClock' = cdClock + TickSeconds
    /\ cdAnswer' = NoAnswer
    /\ UNCHANGED <<cdWindow, cdStore, cdNoted>>
    /\ UNCHANGED notCdVars

NextCooldown ==
    \/ NoteTrade
    \/ CheckCooldown
    \/ CooldownTick

SpecCooldown == InitCooldown /\ [][NextCooldown]_vars

\* C11: the gate answers true exactly when a trade on the symbol was noted
\* and less than the configured cooldown_sec seconds have passed since the
\* latest one; nothing but the check itself is needed to leave the cooldown.
C11_LazyTwoStateGate ==
    cdAnswer.asked
    => (cdAnswer.res <=> (/\ cdNoted[cdAnswer.sym] >= 0
                          /\ cdAnswer.t - cdNoted[cdAnswer.sym] < cdWindow))

----------------------------------------------------------------------------
(* Part 5: TradeExecutor.handle_signal of apply_patches.py (runner/execution.py) *)

SignalTypes == {"BUY", "SELL", "HOLD"}

\* _position_side_from_signal
position_side_from_signal(signal_type) == IF signal_type = "BUY" THEN "LONG" ELSE "SHORT"

HsRes(st, stage, c, entered, sl, tp, w) ==
    [op |-> "handle_signal", status |-> st, stage |-> stage, live |-> ~c.dry_run,
     entered |-> entered, sl |-> sl, tp |-> tp, places |-> w.places]

\* handle_signal
\*   env.price     : "ok" | "none"  (_current_price returns a positive price or 0)
\*   env.qty       : "ok" | "zero"  (_calc_qty)
\*   env.entryFail : place_order of the MARKET entry raises
handle_signal(w, c, variant, symbol, signal_type, nLegs, seq, env) ==
    IF signal_type \notin {"BUY", "SELL"}
      THEN [w |-> w, r |-> HsRes("SKIP", "unsupported signal", c, FALSE, NoRes, NoRes, w)]
    ELSE IF env.price = "none"
      THEN [w |-> w, r |-> HsRes("SKIP", "no price", c, FALSE, NoRes, NoRes, w)]
    ELSE IF env.qty = "zero"
      THEN [w |-> w, r |-> HsRes("SKIP", "qty=0", c, FALSE, NoRes, NoRes, w)]
    ELSE IF ~c.dry_run /\ env.entryFail
      THEN [w |-> w, r |-> HsRes("ERROR", "entry", c, FALSE, NoRes, NoRes, w)]
    ELSE LET x == ensure_exits_on_exchange(w, c, variant, symbol,
                                           position_side_from_signal(signal_type),
                                           nLegs, seq, env)
         IN IF x.w.raised
              THEN [w |-> x.w, r |-> HsRes("RAISED", "exits", c, ~c.dry_run, x.sl, x.tp, x.w)]
              ELSE [w |-> x.w, r |-> HsRes("OK", "", c, ~c.dry_run, x.sl, x.tp, x.w)]

ExecEnvs(symbol, nLegs) ==
    {[infoFail |-> e1.infoFail, slPlaceFail |-> e1.slPlaceFail,
      infoFailTp |-> e2.infoFailTp, listFail |-> e2.listFail,
      cancelFail |-> e2.cancelFail, legs |-> e2.legs,
      price |-> p, qty |-> q, entryFail |-> f] :
        e1 \in SlEnvs(symbol), e2 \in TpEnvs(symbol, nLegs, {FALSE}),
        p \in {"ok", "none"}, q \in {"ok", "zero"},
        f \in IF cfg.dry_run THEN {FALSE} ELSE BOOLEAN}

ExecFaults(env) == EnvFaults(env) + (IF env.entryFail THEN 1 ELSE 0)

InitExecutor ==
    /\ xVariant \in ExitVariants
    /\ cfg \in [dry_run : BOOLEAN, place_exits : BOOLEAN, cooldown : Cooldowns]
    /\ now = Epoch0
    /\ EXIT_STATE = [s \in Symbols |-> [sl |-> 0, tp |-> 0]]
    /\ FILTERS = {}
    /\ openOrders = {}
    /\ callSeq = 0
    /\ lastCall = NoCall
    /\ prevExits = [s \in Symbols |-> NoPrev]
    /\ tpLegs \in UNION {[1..n -> {"ok", "dust"}] : n \in 0..MaxLegs}
    /\ faults = 0
    /\ EmergencyIdle
    /\ EngineIdle
    /\ LateIdle

\* the engine hands one signal to the executor
HandleSignal ==
    /\ callSeq < MaxCalls
    /\ \E symbol \in Symbols, signal_type \in SignalTypes :
       \E env \in ExecEnvs(symbol, Len(tpLegs)) :
         LET x == handle_signal(World(EXIT_STATE, FILTERS, openOrders, now), cfg, xVariant,
                                symbol, signal_type, Len(tpLegs), callSeq + 1, env)
         IN /\ faults + ExecFaults(env) <= MaxFaults
            /\ faults' = faults + ExecFaults(env)
            /\ EXIT_STATE' = x.w.gate
            /\ FILTERS' = x.w.filters
            /\ openOrders' = x.w.orders
            /\ callSeq' = callSeq + 1
            /\ fnIn' = [op |-> "handle_signal", symbol |-> symbol, signal_type |-> signal_type,
                        entryFail |-> env.entryFail]
            /\ fnOut' = x.r
    /\ UNCHANGED <<xVariant, cfg, now, lastCall, prevExits, tpLegs>>
    /\ UNCHANGED <<emVars, engVars, cdVars>>

NextExecutor ==
    \/ HandleSignal
    \/ TickExits

SpecExecutor == InitExecutor /\ [][NextExecutor]_vars

\* C12: executing a signal never lets an exception escape: a MARKET entry that
\* fails in live mode gives status ERROR with no stop-loss or take-profit
\* placed, and a failure inside the exit placement is returned in the result.
C12_NoExceptionEscapes ==
    fnOut.op = "handle_signal"
    => /\ fnOut.status # "RAISED"
       /\ (fnOut.live /\ fnIn.entryFail /\ fnOut.stage = "entry")
            => (fnOut.status = "ERROR" /\ fnOut.places = 0)

----------------------------------------------------------------------------
(* Part 6: the error breaker of _run_trading_loop *)

\* errors the metrics collector has already counted when the loop is entered
CountedErrors == {0, MaxConsecutiveErrors - 1}

InitLoop ==
    /\ ExitsIdle
    /\ emVariant = "v8g"
    /\ emCfg \in EngineEmConfigs
    /\ emIn = [daily_pnl |-> 0, balance |-> 0, max_dd |-> 0,
               pnlRead |-> "ok", balRead |-> "ok", ddRead |-> "ok"]
    /\ emVerdict = "none"
    /\ engVariant \in EngVariants
    /\ ecfg \in [close_positions_on_exit : BOOLEAN, cooldown_sec : {0}, om_addon : {FALSE}]
    /\ eng \in {[Engine0(ps) EXCEPT !.consecutive_errors = n] :
                   ps \in SUBSET Symbols, n \in CountedErrors}
    /\ clock = EngineEpoch0
    /\ lastIter = NoIter
    /\ handed = [i \in SignalIds |-> 0]
    /\ lastEntryAt = [s \in Symbols |-> -1]
    /\ LateIdle

SpecLoop == InitLoop /\ [][NextEngine]_vars

\* C13: an iteration that raises is counted and leaves the loop running; the
\* loop is left only when more than 10 errors have been counted.
C13_ErrorsDoNotEndLoop ==
    [][(eng'.consecutive_errors = eng.consecutive_errors + 1)
         => /\ eng'.exited <=> (eng'.consecutive_errors > MaxConsecutiveErrors)
            /\ ~eng'.exited => (eng'.running = eng.running)]_vars

\* the tenth error has been counted and the loop goes on
C13_Witness ==
    /\ lastIter.ran
    /\ eng.consecutive_errors = MaxConsecutiveErrors
    /\ eng.running
    /\ ~eng.exited

----------------------------------------------------------------------------
(* Part 7: the signal normalizers *)

NormVariants == {"live", "v8"}

\* the shapes a generator hands over
Shapes == {"mapping", "object", "sequence", "string"}

\* side tokens as the generator spells them
SideTokens == {"BUY", "buy", "LONG", "long", "B", "l", "SELL", "sell", "SHORT", "s",
               "HOLD", ""}

\* the strength member: a number, a non-numeric string, or missing
Strengths == {"number", "text", "absent"}

\* str.upper()
upper(tok) ==
    CASE tok = "buy"  -> "BUY"
      [] tok = "long" -> "LONG"
      [] tok = "l"    -> "L"
      [] tok = "sell" -> "SELL"
      [] tok = "s"    -> "S"
      [] OTHER        -> tok

NormNull == [op |-> "normalize", kind |-> "null", side |-> ""]

NormRaised == [op |-> "normalize", kind |-> "raised", side |-> ""]

\* NormalizedSignal(...) / Signal(...): the side is stored as given
NormSignal(side) == [op |-> "normalize", kind |-> "signal", side |-> side]

\* normalize_signal_obj of runner/live.py
normalize_signal_obj(raw) ==
    IF raw.shape = "string" THEN NormNull
    ELSE IF raw.shape = "sequence"
      THEN IF raw.strength = "text" THEN NormRaised      \* float(raw[1]) outside any try
           ELSE IF upper(raw.token) \in {"BUY", "SELL"} THEN NormSignal(upper(raw.token))
           ELSE NormNull                                 \* falls through: _get finds no side
    ELSE IF upper(raw.token) \in {"BUY", "SELL"} THEN NormSignal(upper(raw.token))
    ELSE NormNull

\* LiveTradingEngine._normalize_signal of the v8 engine: one try around the body
normalize_signal_v8(raw) ==
    IF raw.shape = "mapping"
      THEN IF raw.strength = "text" THEN NormNull        \* float(...) raises, caught
           ELSE NormSignal(upper(raw.token))
    ELSE IF raw.shape = "sequence"
      THEN IF raw.strength = "text" THEN NormNull
           ELSE NormSignal(upper(raw.token))
    ELSE IF raw.shape = "string" THEN NormSignal(upper(raw.token))
    ELSE NormNull                                        \* an object that is not a Signal

normalize(raw) ==
    IF raw.variant = "live" THEN normalize_signal_obj(raw) ELSE normalize_signal_v8(raw)

NormInputs ==
    [op : {"normalize"}, variant : NormVariants, shape : Shapes, token : SideTokens,
     strength : Strengths]

InitNormalizer ==
    /\ EarlyIdle
    /\ CooldownIdle
    /\ fnIn \in NormInputs
    /\ fnOut = NoFn

\* the engine normalizes what the generator returned
Normalize ==
    /\ fnIn.op = "normalize"
    /\ fnOut.op = "none"
    /\ fnOut' = normalize(fnIn)
    /\ UNCHANGED fnIn
    /\ UNCHANGED notFnVars

NextNormalizer == Normalize

SpecNormalizer == InitNormalizer /\ [][NextNormalizer]_vars

\* the side a token stands for: BUY/LONG/B/L, SELL/SHORT/S, anything else none
CanonicalSide(tok) ==
    IF upper(tok) \in {"BUY", "LONG", "B", "L"} THEN "BUY"
    ELSE IF upper(tok) \in {"SELL", "SHORT", "S"} THEN "SELL"
    ELSE "none"

\* C14: in each of the four shapes a recognizable side token, in any letter
\* case, gives a signal with the side it stands for; an unrecognizable token
\* gives null; no input makes the normalizer raise.
C14_NormalizerTotal ==
    fnOut.op = "normalize"
    => /\ fnOut.kind # "raised"
       /\ CanonicalSide(fnIn.token) # "none"
            => (fnOut.kind = "signal" /\ fnOut.side = CanonicalSide(fnIn.token))
       /\ CanonicalSide(fnIn.token) = "none" => fnOut.kind = "null"

----------------------------------------------------------------------------
(* Part 8: the position sizers *)

\* bounds of the sizer inputs
MaxBalance == 2
MaxPrice == 2

SizerVariants == {"positions", "executor"}

\* "min_notional_usdt or 5.0"
DefaultMinNotional == 5

\* Config.leverage, default
DefaultLeverage == 5

\* a quantity is the exact rational n / d, times 10^9 when e9 = 1
Qty(n, d, e9) == [n |-> n, d |-> d, e9 |-> e9]

SizeRes(kind, q) == [op |-> "size", kind |-> kind, qty |-> q]

\* the balance the sizer works with: a failed read counts as 0.0
sizer_balance(a) == IF a.balRead = "fail" THEN 0 ELSE a.balance

\* sl_distance of PositionManager.calculate_position_size, as n / d
sl_distance_positions(a) ==
    IF a.stop <= 0 THEN [n |-> a.entry * a.sl_fixed_pct, d |-> 100]
                   ELSE [n |-> Abs(a.entry - a.stop), d |-> 1]

\* PositionManager.calculate_position_size of exchange/positions.py
calculate_position_size(a) ==
    LET balance == sizer_balance(a)
        sd == sl_distance_positions(a)
        min_notional == IF a.min_notional = 0 THEN DefaultMinNotional ELSE a.min_notional
    IN IF balance <= 0 THEN SizeRes("value", Qty(0, 1, 0))
       ELSE IF sd.n <= 0 THEN SizeRes("value", Qty(0, 1, 0))
       ELSE LET size == Qty(balance * a.risk_pct * a.leverage * sd.d, 100 * sd.n, 0)
            IN IF size.n * a.entry < min_notional * size.d
                 THEN \* min_notional / max(1e-9, entry_price)
                      IF a.entry <= 0 THEN SizeRes("value", Qty(min_notional, 1, 1))
                                      ELSE SizeRes("value", Qty(min_notional, a.entry, 0))
                 ELSE SizeRes("value", size)

\* sl_dist of TradeExecutor._calc_qty, as n / d
sl_distance_executor(a) ==
    IF Abs(a.entry - a.stop) <= 0 THEN [n |-> a.entry * a.sl_fixed_pct, d |-> 100]
                                  ELSE [n |-> Abs(a.entry - a.stop), d |-> 1]

\* TradeExecutor._calc_qty of runner/execution.py
calc_qty(a) ==
    LET bal == sizer_balance(a)
        sd == sl_distance_executor(a)
    IN IF bal <= 0 \/ a.entry <= 0 THEN SizeRes("value", Qty(0, 1, 0))
       ELSE IF sd.n <= 0 THEN SizeRes("value", Qty(0, 1, 0))
       ELSE LET qty == Qty(bal * a.risk_pct * a.leverage * sd.d, 100 * sd.n, 0)
            IN IF qty.n >= 0 THEN SizeRes("value", qty) ELSE SizeRes("value", Qty(0, 1, 0))

size(a) == IF a.variant = "positions" THEN calculate_position_size(a) ELSE calc_qty(a)

SizerInputs ==
    [op : {"size"}, variant : SizerVariants,
     balance : (0 - 1) .. MaxBalance, balRead : {"ok", "fail"},
     entry : (0 - 1) .. MaxPrice, stop : (0 - 1) .. MaxPrice,
     risk_pct : {1, 2}, leverage : {DefaultLeverage}, sl_fixed_pct : {0, 1},
     min_notional : {0, DefaultMinNotional}]

InitSizer ==
    /\ EarlyIdle
    /\ CooldownIdle
    /\ fnIn \in SizerInputs
    /\ fnOut = NoFn

\* the engine sizes an entry
Size ==
    /\ fnIn.op = "size"
    /\ fnOut.op = "none"
    /\ fnOut' = size(fnIn)
    /\ UNCHANGED fnIn
    /\ UNCHANGED notFnVars

NextSizer == Size

SpecSizer == InitSizer /\ [][NextSizer]_vars

\* the stop distance the sizer of the call works with
StopDistance(a) ==
    IF a.variant = "positions" THEN sl_distance_positions(a) ELSE sl_distance_executor(a)

\* C15: the sizer returns 0 whenever the balance, the entry price or the
\* stop distance is <= 0; it returns no negative quantity and never raises.
C15_SizerGuards ==
    fnOut.op = "size"
    => /\ fnOut.kind # "raised"
       /\ fnOut.qty.n >= 0
       /\ (fnIn.balance <= 0 \/ fnIn.entry <= 0 \/ StopDistance(fnIn).n <= 0)
            => fnOut.qty.n = 0

----------------------------------------------------------------------------
(* Part 9: the exchange filter cache, _FILTERS behind _load_filters *)

\* bound on the lookups of one run
MaxLookups == 5

NoLookup ==
    [op |-> "none", sym |-> "", raised |-> FALSE, value |-> "none",
     fetches |-> [s \in CdSymbols |-> 0], lookups |-> 0]

InitFilters ==
    /\ EarlyIdle
    /\ CooldownIdle
    /\ fnIn = NoFn
    /\ fnOut = NoLookup

\* a quantizer looks the filters of a symbol up
\*   value : "exchange" when _load_filters returns the cached or fetched entry,
\*           "none" when the call raises instead of returning
LoadFilters ==
    /\ fnOut.lookups < MaxLookups
    /\ \E symbol \in CdSymbols :
       \E infoFails \in (IF symbol \in FILTERS THEN {FALSE} ELSE BOOLEAN) :
         LET w == load_filters(World(EXIT_STATE, FILTERS, openOrders, now), symbol, infoFails)
         IN /\ FILTERS' = w.filters
            /\ fnIn' = [op |-> "load_filters", symbol |-> symbol, infoFails |-> infoFails]
            /\ fnOut' = [op |-> "load_filters", sym |-> symbol, raised |-> w.raised,
                         value |-> IF w.raised THEN "none" ELSE "exchange",
                         fetches |-> [fnOut.fetches EXCEPT ![symbol] = @ + w.calls],
                         lookups |-> fnOut.lookups + 1]
    /\ UNCHANGED <<xVariant, cfg, now, EXIT_STATE, openOrders, callSeq, lastCall, prevExits,
                   tpLegs, faults>>
    /\ UNCHANGED <<emVars, engVars, cdVars>>

NextFilters == LoadFilters

SpecFilters == InitFilters /\ [][NextFilters]_vars

\* C16: get_exchange_info is called at most once per symbol in the life of
\* the process; every later lookup is answered from the cache.
C16_FetchedAtMostOnce ==
    \A s \in CdSymbols : fnOut.fetches[s] <= 1

\* C17: a lookup whose metadata fetch fails returns the default filters and
\* raises nothing to its caller.
C17_FetchFailureGivesDefaults ==
    (fnOut.op = "load_filters" /\ fnIn.infoFails)
    => (~fnOut.raised /\ fnOut.value = "defaults")

----------------------------------------------------------------------------
(* Part 10: quantization, _dec_floor / _floor_to_step *)
(* Floats are counted in hundredths; a Decimal is coef * 10^exp. *)

\* bound on the quantized value, in hundredths
MaxQuantX == 250

\* tickSize / stepSize values, in hundredths: 0, 0.01, 0.05, 0.1, 0.25, 0.5, 1.0, 2.0
Steps == {0, 1, 5, 10, 25, 50, 100, 200}

\* Decimal(str(v)): repr of a float keeps at least one decimal and no
\* further trailing zero
dec_of_float(v) ==
    IF v % 10 # 0 THEN [coef |-> v, exp |-> 0 - 2]
                  ELSE [coef |-> v \div 10, exp |-> 0 - 1]

\* Decimal.quantize(q, rounding=ROUND_DOWN): rescale to the exponent of q,
\* dropping the digits below it
quantize(d, q) ==
    IF d.exp = q.exp THEN d
    ELSE IF d.exp > q.exp THEN [coef |-> d.coef * 10, exp |-> q.exp]
    ELSE [coef |-> d.coef \div 10, exp |-> q.exp]

\* float(Decimal)
float_of_dec(d) == IF d.exp = 0 - 2 THEN d.coef ELSE d.coef * 10

\* _dec_floor stepping one hundredth below its argument first
dec_floor_below(x, step) ==
    IF step <= 0 THEN x
    ELSE float_of_dec(quantize(dec_of_float(x - 1), dec_of_float(step)))

\* _dec_floor (apply_patches.py) / _floor_to_step (apply_unified_imba_patch.py)
dec_floor(x, step) ==
    IF step <= 0 THEN x
    ELSE float_of_dec(quantize(dec_of_float(x), dec_of_float(step)))

QuantInputs == [op : {"quantize"}, x : 1 .. MaxQuantX, step : Steps]

InitQuantize ==
    /\ EarlyIdle
    /\ CooldownIdle
    /\ fnIn \in QuantInputs
    /\ fnOut = NoFn

\* _quant_price / _quant_qty on a raw value
Quantize ==
    /\ fnIn.op = "quantize"
    /\ fnOut.op = "none"
    /\ fnOut' = [op |-> "quantize", n |-> 1, first |-> dec_floor(fnIn.x, fnIn.step),
                 q |-> dec_floor(fnIn.x, fnIn.step)]
    /\ UNCHANGED fnIn
    /\ UNCHANGED notFnVars

\* a retry or a later ensure call quantizes the value it got back
Requantize ==
    /\ fnOut.op = "quantize"
    /\ fnOut.n = 1
    /\ fnOut' = [fnOut EXCEPT !.n = 2, !.q = dec_floor(fnOut.q, fnIn.step)]
    /\ UNCHANGED fnIn
    /\ UNCHANGED notFnVars

NextQuantize ==
    \/ Quantize
    \/ Requantize

SpecQuantize == InitQuantize /\ [][NextQuantize]_vars

\* C18: for an increment > 0 and a positive x the quantized value is an
\* integer multiple of the increment, at most x, and less than one increment
\* below x.
C18_FloorToIncrement ==
    (fnOut.op = "quantize" /\ fnOut.n = 1 /\ fnIn.step > 0)
    => /\ fnOut.q % fnIn.step = 0
       /\ fnOut.q <= fnIn.x
       /\ fnIn.x - fnOut.q < fnIn.step

\* C19: quantizing a quantized value changes nothing.
C19_QuantizeIdempotent ==
    (fnOut.op = "quantize" /\ fnOut.n = 2) => fnOut.q = fnOut.first

\* a value that the first quantization lowered has been quantized twice
C19_Witness ==
    /\ fnOut.op = "quantize"
    /\ fnOut.n = 2
    /\ fnIn.step > 0
    /\ fnOut.first < fnIn.x

----------------------------------------------------------------------------
(* Part 11: take-profit settings, Config.validate_take_profit_alignment *)
(* Shares are counted in tenths: 1.0 is 10. *)

\* bound on the length of TP_LEVELS and TP_SHARES
MaxTpLen == 2

ShareValues == {0, 3, 5, 7}

\* TP_LEVELS, by its number of entries, and TP_SHARES, entry by entry
TpLevelSettings == 0 .. MaxTpLen

TpShareSettings == UNION {[1..n -> ShareValues] : n \in 0 .. MaxTpLen}

RECURSIVE SumShares(_)
SumShares(sh) == IF sh = <<>> THEN 0 ELSE Head(sh) + SumShares(Tail(sh))

\* validate_take_profit_alignment: TRUE when the constructor accepts the pair
validate_take_profit_alignment(levels, shares) ==
    /\ levels = Len(shares)
    /\ SumShares(shares) = 10

TpConfig(status, levels, shares) ==
    [op |-> "config", status |-> status, tp_levels |-> levels, tp_shares |-> shares]

InitTpConfig ==
    /\ EarlyIdle
    /\ CooldownIdle
    /\ fnIn \in {TpConfig("env", l, sh) : l \in TpLevelSettings, sh \in TpShareSettings}
    /\ fnOut = NoFn

\* Config(**env): the model validator runs once, on construction
LoadConfig ==
    /\ fnIn.op = "config"
    /\ fnIn.status = "env"
    /\ fnIn' = [fnIn EXCEPT !.status =
                  IF validate_take_profit_alignment(fnIn.tp_levels, fnIn.tp_shares)
                    THEN "loaded" ELSE "rejected"]
    /\ UNCHANGED fnOut
    /\ UNCHANGED notFnVars

\* apply_settings_to_config: setattr per changed key, nothing re-validated
ApplyTpOverrides ==
    /\ fnIn.op = "config"
    /\ fnIn.status = "loaded"
    /\ \/ \E l \in TpLevelSettings : fnIn' = [fnIn EXCEPT !.tp_levels = l]
       \/ \E sh \in TpShareSettings : fnIn' = [fnIn EXCEPT !.tp_shares = sh]
    /\ UNCHANGED fnOut
    /\ UNCHANGED notFnVars

\* ensure_tp_on_exchange with the lists of the config: the loop runs over
\* zip(tp_levels_pct, tp_shares)
RunLadder ==
    /\ fnIn.op = "config"
    /\ fnIn.status = "loaded"
    /\ fnOut' = [op |-> "ladder", tp_levels |-> fnIn.tp_levels, tp_shares |-> fnIn.tp_shares,
                 legs |-> IF fnIn.tp_levels <= Len(fnIn.tp_shares)
                            THEN fnIn.tp_levels ELSE Len(fnIn.tp_shares)]
    /\ UNCHANGED fnIn
    /\ UNCHANGED notFnVars

NextTpConfig ==
    \/ LoadConfig
    \/ ApplyTpOverrides
    \/ RunLadder

SpecTpConfig == InitTpConfig /\ [][NextTpConfig]_vars

\* C20: the take-profit ladder is never run with levels and shares of
\* unequal length or with shares that do not sum to 1.0, runtime overrides
\* included; such settings are rejected when the config is validated.
C20_LadderPairValidated ==
    fnOut.op = "ladder"
    => validate_take_profit_alignment(fnOut.tp_levels, fnOut.tp_shares)

----------------------------------------------------------------------------
(* Part 12: BinanceClient.safe_call and _sync_time of exchange/client.py *)

\* depth at which the interpreter refuses a further nested call
MaxDepth == 4

\* what one invocation of the wrapped function meets
\*   auth      : status 401/403 or code -2015/-2014
\*   recv      : code -1021 or a recvWindow message
\*   transport : "_http", "send_request", "Connection", "Read timed out"
CallOutcomes == {"ok", "auth", "recv", "transport", "other"}

\* first / last: what the first and the latest invocation met
Frame(fn) == [fn |-> fn, pc |-> "start", calls |-> 0, first |-> "none", last |-> "none"]

\* the except branch of safe_call retrying whatever the error is
on_first_error_retry_all(kind) ==
    IF kind = "recv" THEN "sync"
    ELSE IF kind = "transport" THEN "recreate"
    ELSE "retry"

\* the except branch of safe_call: where the first error leads
on_first_error(kind) ==
    IF kind = "auth" THEN "raised"
    ELSE IF kind = "recv" THEN "sync"
    ELSE IF kind = "transport" THEN "recreate"
    ELSE "raised"

Depth == Len(fnOut.stack)

TopFrame == fnOut.stack[Depth]

SetTop(f) == [fnOut.stack EXCEPT ![Depth] = f]

InitSafeCall ==
    /\ EarlyIdle
    /\ CooldownIdle
    /\ fnIn \in [op : {"safe_call"}, hasClient : BOOLEAN]
    /\ fnOut \in [op : {"safe_call"}, stack : {<<Frame("fn")>>}, recent : BOOLEAN]

\* try: return fn(*args, **kwargs)
FirstCall ==
    /\ fnOut.op = "safe_call"
    /\ TopFrame.pc = "start"
    /\ \E o \in CallOutcomes :
         fnOut' = [fnOut EXCEPT !.stack =
                     SetTop([TopFrame EXCEPT !.calls = 1, !.first = o, !.last = o,
                                             !.pc = IF o = "ok" THEN "returned"
                                                    ELSE on_first_error(o)])]
    /\ UNCHANGED fnIn
    /\ UNCHANGED notFnVars

\* self._sync_time(): returns at once without a client or within 2 s of the
\* last sync; otherwise safe_call(self.client.futures_time), any exception
\* of which (the interpreter's RecursionError included) is swallowed
SyncTime ==
    /\ fnOut.op = "safe_call"
    /\ TopFrame.pc = "sync"
    /\ IF ~fnIn.hasClient \/ fnOut.recent \/ Depth >= MaxDepth
         THEN fnOut' = [fnOut EXCEPT !.stack = SetTop([TopFrame EXCEPT !.pc = "retry"])]
         ELSE fnOut' = [fnOut EXCEPT !.stack =
                          Append(SetTop([TopFrame EXCEPT !.pc = "syncing"]),
                                 Frame("futures_time"))]
    /\ UNCHANGED fnIn
    /\ UNCHANGED notFnVars

\* the nested safe_call of _sync_time is over: _last_time_sync is stamped
\* when it returned, and the caller goes on to sleep and retry either way
SyncReturns ==
    /\ fnOut.op = "safe_call"
    /\ Depth > 1
    /\ TopFrame.pc \in {"returned", "raised"}
    /\ LET below == fnOut.stack[Depth - 1]
           rest == SubSeq(fnOut.stack, 1, Depth - 1)
       IN fnOut' = [fnOut EXCEPT
                      !.stack = [rest EXCEPT ![Depth - 1] = [below EXCEPT !.pc = "retry"]],
                      !.recent = (TopFrame.pc = "returned") \/ fnOut.recent]
    /\ UNCHANGED fnIn
    /\ UNCHANGED notFnVars

\* self._recreate_client() inside the try of the transport branch
Recreate ==
    /\ fnOut.op = "safe_call"
    /\ TopFrame.pc = "recreate"
    /\ \E built \in BOOLEAN :
         fnOut' = [fnOut EXCEPT !.stack =
                     SetTop([TopFrame EXCEPT !.pc = IF built THEN "retry" ELSE "raised"])]
    /\ UNCHANGED fnIn
    /\ UNCHANGED notFnVars

\* return fn(*args, **kwargs), the second invocation; time.sleep(1.0) before
\* it lets the 2 s sync memo run out
Retry ==
    /\ fnOut.op = "safe_call"
    /\ TopFrame.pc = "retry"
    /\ \E o \in CallOutcomes, r \in {fnOut.recent, FALSE} :
         fnOut' = [fnOut EXCEPT
                     !.stack = SetTop([TopFrame EXCEPT !.calls = @ + 1, !.last = o,
                                         !.pc = IF o = "ok" THEN "returned" ELSE "raised"]),
                     !.recent = r]
    /\ UNCHANGED fnIn
    /\ UNCHANGED notFnVars

NextSafeCall ==
    \/ FirstCall
    \/ SyncTime
    \/ SyncReturns
    \/ Recreate
    \/ Retry

SpecSafeCall == InitSafeCall /\ [][NextSafeCall]_vars /\ WF_vars(NextSafeCall)

SafeCallDone ==
    /\ fnOut.op = "safe_call"
    /\ Depth = 1
    /\ TopFrame.pc \in {"returned", "raised"}

\* every safe_call under way has invoked its function at most twice, twice
\* only after a recvWindow or transport error, and once when the error was
\* an auth error, which is re-raised
SafeCallBounded ==
    fnOut.op = "safe_call"
    => \A k \in 1 .. Depth :
         LET f == fnOut.stack[k]
         IN /\ f.calls <= 2
            /\ f.calls = 2 => f.first \in {"recv", "transport"}
            /\ f.first = "auth" => (f.calls = 1 /\ f.pc = "raised")

\* C21: safe_call always terminates, having invoked the wrapped function at
\* most twice (once plus one retry after a time sync or a client
\* re-creation); an auth error is re-raised without a retry.
C21_SafeCallTerminates == [](SafeCallBounded) /\ <>(SafeCallDone)

\* the call returned from its retry after a time sync
C21_Witness ==
    /\ SafeCallDone
    /\ TopFrame.first = "recv"
    /\ TopFrame.calls = 2
    /\ TopFrame.pc = "returned"

----------------------------------------------------------------------------
(* Part 13: engine start-up, _initialize_components (v8) and _init_signaler (live.py) *)

\* trading cycles followed after start-up
MaxStartCycles == 2

StartVariants == {"v8", "live"}

\* a component's initialize():
\*   "no" not called, "task" scheduled with create_task and not yet run,
\*   "failed" raised (swallowed), "done" completed, "absent" no such component
NewEngine ==
    [op |-> "startup", phase |-> "new", md |-> "no", pm |-> "no", sg |-> "no", cycles |-> 0]

InitStartup ==
    /\ EarlyIdle
    /\ CooldownIdle
    /\ fnIn \in [op : {"startup"}, variant : StartVariants, dry_run : BOOLEAN,
                 sg_async : BOOLEAN, loop_at_init : BOOLEAN]
    /\ fnOut = NewEngine

\* _init_signaler, called from __init__ of the live.py engine: a coroutine
\* returned by initialize() is handed to asyncio.create_task, which raises
\* (swallowed) when no event loop is running
init_signaler(a) ==
    IF ~a.sg_async THEN "done"
    ELSE IF a.loop_at_init THEN "task"
    ELSE "no"

\* LiveTradingEngine(config)
Construct ==
    /\ fnOut.op = "startup"
    /\ fnOut.phase = "new"
    /\ fnOut' = IF fnIn.variant = "live"
                  THEN [fnOut EXCEPT !.phase = "constructed", !.md = "absent", !.pm = "absent",
                                     !.sg = init_signaler(fnIn)]
                  ELSE [fnOut EXCEPT !.phase = "constructed"]
    /\ UNCHANGED fnIn
    /\ UNCHANGED notFnVars

\* _initialize_components of the v8 engine: each initialize is awaited through
\* _maybe_await inside its own try; DRY_RUN skips the exchange and the
\* position manager
initialize_components(e, a, fails) ==
    LET st(c) == IF c \in fails THEN "failed" ELSE "done"
    IN IF a.dry_run THEN [e EXCEPT !.sg = st("sg")]
       ELSE [e EXCEPT !.md = st("md"), !.pm = st("pm"), !.sg = st("sg")]

\* await engine.start(), up to the entry of the trading loop
Start ==
    /\ fnOut.op = "startup"
    /\ fnOut.phase = "constructed"
    /\ IF fnIn.variant = "live"
         THEN fnOut' = [fnOut EXCEPT !.phase = "started"]
         ELSE \E fails \in SUBSET {"md", "pm", "sg"} :
                fnOut' = [initialize_components(fnOut, fnIn, fails) EXCEPT !.phase = "started"]
    /\ UNCHANGED fnIn
    /\ UNCHANGED notFnVars

\* the event loop runs the task created by _init_signaler
InitTaskRuns ==
    /\ fnOut.op = "startup"
    /\ fnOut.phase # "new"
    /\ fnOut.sg = "task"
    /\ fnOut' = [fnOut EXCEPT !.sg = "done"]
    /\ UNCHANGED fnIn
    /\ UNCHANGED notFnVars

\* one pass of the trading loop
StartupCycle ==
    /\ fnOut.op = "startup"
    /\ fnOut.phase = "started"
    /\ fnOut.cycles < MaxStartCycles
    /\ fnOut' = [fnOut EXCEPT !.cycles = @ + 1]
    /\ UNCHANGED fnIn
    /\ UNCHANGED notFnVars

NextStartup ==
    \/ Construct
    \/ Start
    \/ InitTaskRuns
    \/ StartupCycle

SpecStartup == InitStartup /\ [][NextStartup]_vars

\* C22: when start-up has finished, and so before any trading cycle runs,
\* initialize() of the market-data client, of the position manager and of
\* the signal generator has completed.
C22_InitializedBeforeFirstCycle ==
    (fnOut.op = "startup" /\ fnOut.phase = "started")
    => /\ fnOut.md \in {"done", "absent"}
       /\ fnOut.pm \in {"done", "absent"}
       /\ fnOut.sg = "done"

\* ---------------------------------------------------------------------------
\* Part 14: the take-profit ladder of ensure_tp_on_exchange, leg by leg
\*          (apply_patches.py and apply_unified_imba_patch.py)
\*
\* Quantities and prices are in hundredths, notionals in ten-thousandths.
\* The exchange rejects an order with one error code, so the text of an
\* exception carries the precision marker, the reduce-only marker or neither.
\* ---------------------------------------------------------------------------
MaxPairs == 2

LadderVariants == {"patches", "imba"}
PositionTokens == {"LONG", "BUY", "B", "SHORT", "SELL", "S"}
PlaceOutcomes == {"ok", "precision", "reduce_only", "other"}
LivePositions == {0, 150, 250, 800}

LegEnv == [place : PlaceOutcomes, retry : {"ok", "fail"},
           positions : {"ok", "raise"}, cur : LivePositions]

NoLeg == [result |-> "none", calls |-> 0, err |-> "none", retry |-> "none",
          side |-> "", level |-> 0, raw_px |-> 0, px |-> 0, qty |-> 0, qty0 |-> 0]

\* the branch of the ladder that prices a leg above the entry
is_long(variant, position_side) ==
    IF variant = "patches" THEN position_side \in {"LONG", "BUY"}
    ELSE position_side \in {"LONG"}

\* _clamp_percent_price: PERCENT_PRICE band around mark (or the price itself
\* when no mark is known), then the tick floor
clamp_percent_price(f, mark, price) ==
    LET ref == IF mark > 0 THEN mark ELSE price
        lo == (ref * f.mdn) \div 100
        hi == (ref * f.mup) \div 100
        px == IF price < lo THEN (IF lo < hi THEN lo ELSE hi)
              ELSE IF price < hi THEN price ELSE hi
    IN dec_floor(px, f.tick)

\* which handler branch retries a rejected leg, retrying after any error
retry_branch_any(err) ==
    IF err = "ok" THEN "none" ELSE IF err = "reduce_only" THEN "reduce_only"
    ELSE "precision"

\* which handler branch retries a rejected leg
retry_branch(err) ==
    IF err = "precision" THEN "precision"
    ELSE IF err = "reduce_only" THEN "reduce_only"
    ELSE "none"

\* one iteration of the for-loop: the leg's outcome
tp_leg(in, i, env) ==
    LET level == in.levels[i]
        share == in.shares[i]
        f == in.filters
        base == [NoLeg EXCEPT !.level = level]
        part_qty == dec_floor((in.qty * share) \div 2, f.step)
        raw_px == IF is_long(in.variant, in.position_side)
                    THEN (in.entry_price * (100 + level)) \div 100
                    ELSE (in.entry_price * (100 - level)) \div 100
        px == IF in.variant = "patches"
                THEN clamp_percent_price(f, in.mark, raw_px)
                ELSE dec_floor(raw_px, f.tick)
        priced == [base EXCEPT !.side = pos_to_close_side(in.position_side),
                               !.raw_px = raw_px, !.px = px,
                               !.qty = part_qty, !.qty0 = part_qty]
        first == [priced EXCEPT !.calls = 1, !.err = env.place]
        branch == retry_branch(env.place)
    IN IF share <= 0 THEN [base EXCEPT !.result = "skipped"]
       ELSE IF part_qty <= 0 THEN [base EXCEPT !.result = "skipped"]
       ELSE IF part_qty * px < f.min_not
         THEN [priced EXCEPT !.result = "skipped"]
       ELSE IF env.place = "ok" THEN [first EXCEPT !.result = "placed"]
       ELSE IF branch = "precision"
         THEN [first EXCEPT !.calls = 2, !.retry = "precision",
                            !.qty = dec_floor(part_qty, f.step),
                            !.px = dec_floor(px, f.tick),
                            !.result = IF env.retry = "ok" THEN "placed" ELSE "failed"]
       ELSE IF branch = "reduce_only"
         THEN IF env.positions = "raise" THEN [first EXCEPT !.result = "failed"]
              ELSE LET part_qty2 == dec_floor(IF part_qty < env.cur THEN part_qty
                                              ELSE env.cur, f.step)
                   IN IF part_qty2 > 0 /\ part_qty2 * px >= f.min_not
                        THEN [first EXCEPT !.calls = 2, !.retry = "reduce_only",
                                           !.qty = part_qty2,
                                           !.result = IF env.retry = "ok" THEN "placed"
                                                      ELSE "failed"]
                        ELSE [first EXCEPT !.result = "failed"]
       ELSE [first EXCEPT !.result = "failed"]

\* the counters after a leg, leaving a leg whose retry failed uncounted
count_leg_retry_uncounted(out, leg) ==
    [out EXCEPT !.placed = @ + (IF leg.result = "placed" THEN 1 ELSE 0),
                !.skipped = @ + (IF leg.result = "skipped" THEN 1 ELSE 0),
                !.fails = @ + (IF leg.result = "failed" /\ leg.calls < 2 THEN 1 ELSE 0)]

\* the counters after a leg
count_leg(out, leg) ==
    [out EXCEPT !.placed = @ + (IF leg.result = "placed" THEN 1 ELSE 0),
                !.skipped = @ + (IF leg.result = "skipped" THEN 1 ELSE 0),
                !.fails = @ + (IF leg.result = "failed" THEN 1 ELSE 0)]

Min2(a, b) == IF a < b THEN a ELSE b

\* zip(tp_levels_pct, tp_shares)
Pairs(in) == Min2(Len(in.levels), Len(in.shares))

LadderFilters == [tick : {10}, step : {10}, min_not : {50000}, mup : {115}, mdn : {85}]

LadderInputs ==
    UNION {[op : {"tp_ladder"}, variant : LadderVariants,
            position_side : PositionTokens,
            qty : {10, 800}, entry_price : {250}, mark : {0, 100},
            levels : [1 .. n -> {0, 2}], shares : [1 .. m -> {0, 1}],
            filters : LadderFilters] : n \in 0 .. MaxPairs, m \in 0 .. MaxPairs}

InitTpLadder ==
    /\ EarlyIdle
    /\ CooldownIdle
    /\ fnIn \in LadderInputs
    /\ fnOut = [op |-> "tp_ladder", i |-> 1, placed |-> 0, skipped |-> 0, fails |-> 0,
                last |-> NoLeg, done |-> FALSE, status |-> ""]

\* one iteration of the loop
TpLeg ==
    /\ fnOut.op = "tp_ladder"
    /\ ~fnOut.done
    /\ fnOut.i <= Pairs(fnIn)
    /\ \E env \in LegEnv :
         LET leg == tp_leg(fnIn, fnOut.i, env)
         IN fnOut' = [count_leg(fnOut, leg) EXCEPT !.i = @ + 1, !.last = leg]
    /\ UNCHANGED fnIn
    /\ UNCHANGED notFnVars

\* the return after the loop
TpReturn ==
    /\ fnOut.op = "tp_ladder"
    /\ ~fnOut.done
    /\ fnOut.i > Pairs(fnIn)
    /\ fnOut' = [fnOut EXCEPT !.done = TRUE,
                              !.status = IF fnOut.placed > 0 THEN "OK" ELSE "SKIP"]
    /\ UNCHANGED fnIn
    /\ UNCHANGED notFnVars

NextTpLadder == TpLeg \/ TpReturn

SpecTpLadder == InitTpLadder /\ [][NextTpLadder]_vars

\* C23: every (level, share) pair is processed exactly once even when legs
\* fail: each processed leg lands in exactly one of placed, skipped and fails,
\* the loop ends only after the last pair, and the final counts add up to the
\* number of pairs with status OK exactly when a leg was placed.
C23_EveryPairCountedOnce ==
    fnOut.op = "tp_ladder"
    => /\ fnOut.placed + fnOut.skipped + fnOut.fails = fnOut.i - 1
       /\ fnOut.i <= Pairs(fnIn) + 1
       /\ fnOut.done
          => /\ fnOut.placed + fnOut.skipped + fnOut.fails = Pairs(fnIn)
             /\ (fnOut.status = "OK") <=> (fnOut.placed >= 1)
             /\ fnOut.status \in {"OK", "SKIP"}

C23_Witness ==
    /\ fnOut.op = "tp_ladder"
    /\ fnOut.done
    /\ Pairs(fnIn) = 2
    /\ fnOut.fails = 1
    /\ fnOut.placed = 1
    /\ fnOut.last.result = "placed"

C30_SideAndPriceAgree ==
    (fnOut.op = "tp_ladder" /\ fnOut.last.side # "" /\ fnOut.last.level > 0)
    => /\ fnOut.last.side = "SELL" => fnOut.last.raw_px > fnIn.entry_price
       /\ fnOut.last.side = "BUY" => fnOut.last.raw_px < fnIn.entry_price

\* ---------------------------------------------------------------------------
\* Part 15: the stop price ensure_sl_on_exchange submits
\*          (apply_patches.py and apply_unified_imba_patch.py), in hundredths
\* ---------------------------------------------------------------------------
MaxStop == 40
EpsTicks == 3

\* the clamp against the mark price followed by _quant_price
sl_stop_price(position_side, stop_price, mark, tick) ==
    LET close_side == pos_to_close_side(position_side)
        below == mark - EpsTicks * tick
        sp == IF mark > 0
                THEN IF close_side = "SELL"
                       THEN IF stop_price >= mark
                              THEN (IF below > tick THEN below ELSE tick)
                              ELSE stop_price
                       ELSE IF stop_price <= mark
                              THEN mark + EpsTicks * tick
                              ELSE stop_price
                ELSE stop_price
    IN [side |-> close_side, stopPrice |-> dec_floor(sp, tick)]

InitStopPrice ==
    /\ EarlyIdle
    /\ CooldownIdle
    /\ fnIn \in [op : {"sl_price"}, position_side : PositionTokens,
                 stop_price : 0 .. MaxStop, mark : {0, 10, 20, 25}, tick : {1, 10}]
    /\ fnOut = [op |-> "sl_price", side |-> "", stopPrice |-> 0, placed |-> FALSE]

\* ensure_sl_on_exchange up to the STOP_MARKET order
PlaceStop ==
    /\ fnIn.op = "sl_price"
    /\ ~fnOut.placed
    /\ LET p == sl_stop_price(fnIn.position_side, fnIn.stop_price, fnIn.mark, fnIn.tick)
       IN fnOut' = [op |-> "sl_price", side |-> p.side, stopPrice |-> p.stopPrice,
                    placed |-> TRUE]
    /\ UNCHANGED fnIn
    /\ UNCHANGED notFnVars

NextStopPrice == PlaceStop

SpecStopPrice == InitStopPrice /\ [][NextStopPrice]_vars

\* C25: with a positive mark price the submitted stopPrice is strictly below
\* the mark for a long position (SELL stop) and strictly above it for a short
\* position (BUY stop).
C25_StopOnProtectiveSide ==
    (fnOut.op = "sl_price" /\ fnOut.placed /\ fnIn.mark > 0)
    => /\ fnOut.side = "SELL" => fnOut.stopPrice < fnIn.mark
       /\ fnOut.side = "BUY" => fnOut.stopPrice > fnIn.mark

\* ---------------------------------------------------------------------------
\* Part 16: start(), stop() and the trading loop of the v8 engine as
\*          coroutines that interleave at their awaits
\*          (runner/live.bak_v8_guardrails.py)
\* ---------------------------------------------------------------------------
MaxStopCalls == 2
MaxIters == 2

OrderIds == {"o1", "o2"}
LifeSymbols == {"BTCUSDT"}

CloseId(sym) == "close-" \o sym

\* the engine when start() is entered
Lifecycle0 ==
    [op |-> "lifecycle", phase |-> "entered", running |-> FALSE, shutdown_event |-> FALSE,
     stop_calls |-> 0, shutdowns |-> 0, seq |-> "none",
     iters |-> 0, late_iters |-> 0, late_cycles |-> 0,
     pending_orders |-> {}, exchange |-> {}, active_positions |-> {}]

InitLifecycle ==
    /\ EarlyIdle
    /\ CooldownIdle
    /\ fnIn \in [op : {"lifecycle"}, close_positions_on_exit : BOOLEAN]
    /\ fnOut = Lifecycle0

\* the synchronous head of stop(): the running test and the flag updates
stop_head(e) ==
    IF ~e.running THEN [e EXCEPT !.stop_calls = @ + 1]
    ELSE [e EXCEPT !.stop_calls = @ + 1, !.running = FALSE, !.shutdown_event = TRUE,
                   !.shutdowns = @ + 1, !.seq = "cancel"]

\* _cancel_all_pending_orders
\*   cancelFail : the orders whose cancel_order raises
lifecycle_cancel_all(e, cancelFail) ==
    [e EXCEPT !.exchange = @ \ (e.pending_orders \ cancelFail),
              !.pending_orders = {},
              !.seq = "save"]

\* _close_position for every active position
\*   closed : the positions close_position returns no order for
lifecycle_close_all(e, closed) ==
    LET placed == {CloseId(s) : s \in e.active_positions \ closed}
    IN [e EXCEPT !.pending_orders = @ \cup placed,
                 !.exchange = @ \cup placed,
                 !.active_positions = @ \ closed]

\* start(): _initialize_components and _setup_signal_handlers; a failure ends
\* in the except branch, whose stop() finds running false
StartInitializes ==
    /\ fnOut.op = "lifecycle"
    /\ fnOut.phase = "entered"
    /\ \E ok \in BOOLEAN :
         fnOut' = [fnOut EXCEPT !.phase = IF ok THEN "loading" ELSE "failed"]
    /\ UNCHANGED fnIn
    /\ UNCHANGED notFnVars

\* start(): _load_state returns, running is set and the loop is entered
StartRuns ==
    /\ fnOut.op = "lifecycle"
    /\ fnOut.phase = "loading"
    /\ fnOut' = [fnOut EXCEPT !.phase = "looping", !.running = TRUE]
    /\ UNCHANGED fnIn
    /\ UNCHANGED notFnVars

\* stop() called by the signal handler's task or from outside
CallStop ==
    /\ fnOut.op = "lifecycle"
    /\ fnOut.stop_calls < MaxStopCalls
    /\ fnOut' = stop_head(fnOut)
    /\ UNCHANGED fnIn
    /\ UNCHANGED notFnVars

\* stop(): the pending orders are cancelled
ShutdownCancels ==
    /\ fnOut.op = "lifecycle"
    /\ fnOut.seq = "cancel"
    /\ \E cancelFail \in SUBSET fnOut.pending_orders :
         fnOut' = lifecycle_cancel_all(fnOut, cancelFail)
    /\ UNCHANGED fnIn
    /\ UNCHANGED notFnVars

\* stop(): state saved, positions closed when configured, components shut down
ShutdownFinishes ==
    /\ fnOut.op = "lifecycle"
    /\ fnOut.seq = "save"
    /\ \E closed \in SUBSET fnOut.active_positions :
         fnOut' = [(IF fnIn.close_positions_on_exit
                      THEN lifecycle_close_all(fnOut, closed) ELSE fnOut)
                   EXCEPT !.seq = "done"]
    /\ UNCHANGED fnIn
    /\ UNCHANGED notFnVars

\* the while test passes and the emergency check is awaited
LoopBegins ==
    /\ fnOut.op = "lifecycle"
    /\ fnOut.phase = "looping"
    /\ fnOut.running
    /\ fnOut.iters < MaxIters
    /\ fnOut' = [fnOut EXCEPT !.phase = "checking", !.iters = @ + 1,
                              !.late_iters = @ + (IF fnOut.stop_calls > 0 THEN 1 ELSE 0)]
    /\ UNCHANGED fnIn
    /\ UNCHANGED notFnVars

\* the emergency check returns: stop() and break, or the trading cycle begins
LoopChecks ==
    /\ fnOut.op = "lifecycle"
    /\ fnOut.phase = "checking"
    /\ \E halt \in BOOLEAN :
         fnOut' = IF halt
                    THEN [stop_head(fnOut) EXCEPT !.phase = "exited",
                                                  !.stop_calls = fnOut.stop_calls]
                    ELSE [fnOut EXCEPT !.phase = "cycle",
                                       !.late_cycles = @ + (IF fnOut.stop_calls > 0
                                                              THEN 1 ELSE 0)]
    /\ UNCHANGED fnIn
    /\ UNCHANGED notFnVars

\* the trading cycle and the sleep end
\*   placed : the entry orders the cycle placed
\*   opened : the positions its fills opened
LoopSleeps ==
    /\ fnOut.op = "lifecycle"
    /\ fnOut.phase = "cycle"
    /\ \E placed \in SUBSET (OrderIds \ fnOut.exchange) : \E opened \in SUBSET LifeSymbols :
         fnOut' = [fnOut EXCEPT !.phase = "looping",
                                !.pending_orders = @ \cup placed,
                                !.exchange = @ \cup placed,
                                !.active_positions = @ \cup opened]
    /\ UNCHANGED fnIn
    /\ UNCHANGED notFnVars

\* the while test fails
LoopExits ==
    /\ fnOut.op = "lifecycle"
    /\ fnOut.phase = "looping"
    /\ ~fnOut.running
    /\ fnOut' = [fnOut EXCEPT !.phase = "exited"]
    /\ UNCHANGED fnIn
    /\ UNCHANGED notFnVars

NextLifecycle ==
    \/ StartInitializes
    \/ StartRuns
    \/ CallStop
    \/ ShutdownCancels
    \/ ShutdownFinishes
    \/ LoopBegins
    \/ LoopChecks
    \/ LoopSleeps
    \/ LoopExits

SpecLifecycle == InitLifecycle /\ [][NextLifecycle]_vars

\* C26: after stop() has completed, an order is gone from pending_orders only
\* if its cancel succeeded, and every order placed during the shutdown is
\* still in pending_orders: no order live at the exchange is untracked.
C26_BookkeepingAgrees ==
    (fnOut.op = "lifecycle" /\ fnOut.seq = "done")
    => fnOut.exchange \subseteq fnOut.pending_orders

\* C29: once stop() has been called after start() was entered, the shutdown
\* sequence has been started exactly once, however many stop() calls there
\* are, and no iteration of the trading loop begins afterwards.
C29_StopNeverLost ==
    (fnOut.op = "lifecycle" /\ fnOut.stop_calls > 0)
    => /\ fnOut.shutdowns = 1
       /\ fnOut.late_iters = 0

\* ---------------------------------------------------------------------------
\* Part 17: the position cache of PositionManager (exchange/positions.py)
\* ---------------------------------------------------------------------------
PmEpoch0 == 10
PmTickSeconds == 2
MaxPmTicks == 5
CacheTtl == 5

NoPmAnswer == [sym |-> "", hit |-> FALSE, found |-> FALSE, age |-> 0]

\* get_position: the cached Position when the symbol is cached and the last
\* update of the cache is younger than the TTL, else a fetch
\*   fetch : what get_position_info meets ("pos", "flat", "absent", "raise")
get_position(pm, symbol, force_refresh, fetch) ==
    IF ~force_refresh /\ pm.cache[symbol] >= 0 /\ (pm.now - pm.last_update) < CacheTtl
      THEN [pm EXCEPT !.answer = [sym |-> symbol, hit |-> TRUE, found |-> TRUE,
                                  age |-> pm.now - pm.cache[symbol]]]
    ELSE IF fetch \in {"pos", "flat"}
      THEN [pm EXCEPT !.cache[symbol] = pm.now, !.last_update = pm.now,
                      !.answer = [sym |-> symbol, hit |-> FALSE, found |-> TRUE, age |-> 0]]
    ELSE [pm EXCEPT !.answer = [sym |-> symbol, hit |-> FALSE, found |-> FALSE, age |-> 0]]

InitPositionCache ==
    /\ EarlyIdle
    /\ CooldownIdle
    /\ fnIn = [op |-> "pm"]
    /\ fnOut = [op |-> "pm", cache |-> [s \in CdSymbols |-> 0 - 1], last_update |-> 0,
                now |-> PmEpoch0, answer |-> NoPmAnswer]

\* a caller looks a symbol up
GetPosition ==
    /\ fnOut.op = "pm"
    /\ \E symbol \in CdSymbols : \E force_refresh \in BOOLEAN :
       \E fetch \in {"pos", "flat", "absent", "raise"} :
         fnOut' = get_position(fnOut, symbol, force_refresh, fetch)
    /\ UNCHANGED fnIn
    /\ UNCHANGED notFnVars

\* time passes
PmTick ==
    /\ fnOut.op = "pm"
    /\ fnOut.now < PmEpoch0 + MaxPmTicks * PmTickSeconds
    /\ fnOut' = [fnOut EXCEPT !.now = @ + PmTickSeconds, !.answer = NoPmAnswer]
    /\ UNCHANGED fnIn
    /\ UNCHANGED notFnVars

NextPositionCache == GetPosition \/ PmTick

SpecPositionCache == InitPositionCache /\ [][NextPositionCache]_vars

\* C28: get_position without force_refresh never returns a cached Position
\* that was fetched more than the TTL earlier, whatever lookups for other
\* symbols came in between.
C28_CacheWithinTtl ==
    (fnOut.op = "pm" /\ fnOut.answer.hit) => fnOut.answer.age <= CacheTtl

\* ---------------------------------------------------------------------------
\* Part 18: active_positions of the v8 engine under fills and the
\*          position-management pass (runner/live.bak_v8_guardrails.py with
\*          the adapters of exchange/positions.py)
\*
\* A position is its size; -1 stands for a symbol without an entry.
\* ---------------------------------------------------------------------------
MaxAmt == 2

Absent == 0 - 1
Amounts == 0 .. MaxAmt

\* PositionManager.get_position(sym, force_refresh=True): a Position, flat
\* ones included, or None when the fetch fails
refreshed_position(exchange, symbol, fetch) ==
    IF fetch = "ok" THEN [none |-> FALSE, size |-> exchange[symbol]]
    ELSE [none |-> TRUE, size |-> 0]

\* PositionManager.handle_filled_order: refreshes the cache, returns nothing
pm_handle_filled_order(exchange, symbol, fetch) == [none |-> TRUE, size |-> 0]

\* PositionManager.update_position
pm_update_position(exchange, symbol, fetch) == refreshed_position(exchange, symbol, fetch)

\* LiveTradingEngine._handle_filled_order
engine_handle_filled_order(active, exchange, symbol, fetch) ==
    LET position == pm_handle_filled_order(exchange, symbol, fetch)
    IN IF ~position.none
         THEN IF position.size # 0 THEN [active EXCEPT ![symbol] = position.size]
              ELSE [active EXCEPT ![symbol] = Absent]
         ELSE active

\* one symbol of LiveTradingEngine._manage_positions
\*   env.exit  : should_exit gives an exit signal
\*   env.order : close_position returns an order
manage_position(active, exchange, symbol, env) ==
    IF active[symbol] = Absent THEN active
    ELSE IF env.exit
      THEN IF env.order THEN active ELSE [active EXCEPT ![symbol] = Absent]
    ELSE LET updated == pm_update_position(exchange, symbol, env.fetch)
         IN IF ~updated.none THEN [active EXCEPT ![symbol] = updated.size] ELSE active

\* _initialize_components: under DRY_RUN nothing is loaded, otherwise
\* get_positions gives a Position for every configured symbol
load_positions(dry_run, exchange) ==
    IF dry_run THEN [s \in CdSymbols |-> Absent] ELSE exchange

ManageEnv == [exit : BOOLEAN, order : BOOLEAN, fetch : {"ok", "raise"}]

InitFills ==
    /\ EarlyIdle
    /\ CooldownIdle
    /\ fnIn \in [op : {"fills"}, dry_run : BOOLEAN]
    /\ \E exchange \in [CdSymbols -> Amounts] :
         fnOut = [op |-> "fills", exchange |-> exchange,
                  active_positions |-> load_positions(fnIn.dry_run, exchange),
                  last |-> [kind |-> "none", sym |-> "", fetch |-> "ok"]]

\* an order fills at the exchange and _update_orders hands it on
OrderFills ==
    /\ fnOut.op = "fills"
    /\ \E symbol \in CdSymbols : \E amt \in Amounts : \E fetch \in {"ok", "raise"} :
         /\ amt # fnOut.exchange[symbol]
         /\ LET exchange == [fnOut.exchange EXCEPT ![symbol] = amt]
            IN fnOut' = [fnOut EXCEPT
                           !.exchange = exchange,
                           !.active_positions =
                               engine_handle_filled_order(@, exchange, symbol, fetch),
                           !.last = [kind |-> "fill", sym |-> symbol, fetch |-> fetch]]
    /\ UNCHANGED fnIn
    /\ UNCHANGED notFnVars

\* one pass of _manage_positions over the active positions
ManagePositions ==
    /\ fnOut.op = "fills"
    /\ \E e1 \in ManageEnv : \E e2 \in ManageEnv :
         LET a1 == manage_position(fnOut.active_positions, fnOut.exchange, "BTCUSDT", e1)
             a2 == manage_position(a1, fnOut.exchange, "ETHUSDT", e2)
         IN fnOut' = [fnOut EXCEPT !.active_positions = a2,
                                   !.last = [kind |-> "manage", sym |-> "", fetch |-> "ok"]]
    /\ UNCHANGED fnIn
    /\ UNCHANGED notFnVars

NextFills == OrderFills \/ ManagePositions

SpecFills == InitFills /\ [][NextFills]_vars

\* C27: after a fill has been handled or a position-management pass has run,
\* active_positions holds only non-zero positions; after a fill whose position
\* could be read, a flat symbol has no entry and a filled entry has one.
C27_OnlyOpenPositions ==
    (fnOut.op = "fills" /\ fnOut.last.kind # "none")
    => /\ \A s \in CdSymbols : fnOut.active_positions[s] # 0
       /\ (fnOut.last.kind = "fill" /\ fnOut.last.fetch = "ok")
          => IF fnOut.exchange[fnOut.last.sym] = 0
               THEN fnOut.active_positions[fnOut.last.sym] = Absent
               ELSE fnOut.active_positions[fnOut.last.sym] # Absent
====
